---- MODULE Spec2Model ----
(***************************************************************************)
(* Model of the migration worker (Worker in part_003) driving the version  *)
(* table of a database through the compiled plans of a Schema.             *)
(*                                                                         *)
(* State: the schema's compiled plans, the driver capability, the version  *)
(* table, and for every worker its position in the operation it is         *)
(* running.  One action is one transaction against the store (the function *)
(* handed to Worker.transact) or one statement run outside a transaction.  *)
(*                                                                         *)
(* Faults: a migration action may return an error, and a statement that    *)
(* writes the version table (insert, delete, update) may return an error.  *)
(* Opening a transaction, listing the versions and committing succeed.     *)
(***************************************************************************)
EXTENDS Integers, Sequences, FiniteSets, TLC

\* number of versions the schema defines
NumPlans == 2

\* ids of the defined versions: 2, 4, ...; the ids between them are undefined
SchemaIDs == {2 * i : i \in 1 .. NumPlans}

\* ids a caller may pass to an operation: 0, the defined ids and an undefined id
CallIDs == {0, 3} \cup SchemaIDs

\* kind of a resolved action: a command, a DBFunc or a TxFunc
Kinds == {"sql", "dbFunc", "txFunc"}

\* up/down pairs a definition of the modelled schemas is drawn from
DefinitionPairs ==
  { [up |-> "sql", down |-> "sql"],
    [up |-> "txFunc", down |-> "dbFunc"],
    [up |-> "dbFunc", down |-> "txFunc"] }

\* the workers that may be constructed on the same database
Workers == {1, 2}

VARIABLES
  plans,       \* the plans the workers read: plan id -> [up, down], the kinds
               \* of the resolved actions
  txDDL,       \* what the worker's driver answers to SupportsTransactionalDDL
  table,       \* the version table: a set of rows [id, failed, locked]
  workers,     \* the workers NewWorker has returned
  pc,          \* per worker: the step it is about to perform
  call,        \* per worker: the public operation running (or last run)
  err,         \* per worker: the error the operation returned
  initCalled,  \* per worker: Worker.initCalled
  creates,     \* per worker: the calls of CreateMigrationsTable it has made
  createErrs,  \* the errors the database will still answer to CreateMigrationsTable
  stepID,      \* per worker: id handed from upOne/downOne to the NoTx helper
  more,        \* per worker: what the loop of Up/Down/Goto tests next
  tbl0,        \* per worker: the table when the operation was called
  log,         \* per worker: the migration actions run during the operation
  handles,     \* the Definitions that Define has returned, in call order
  definitions, \* Schema.definitions: version id -> index in handles
  errs,        \* Schema.errs
  schemaPlans, \* Schema.plans: nil, or the list of the compiled plans
  result       \* what the last call of Err or NewWorker returned

\* the Schema and what was last asked of it
schemaVars == << handles, definitions, errs, schemaPlans, result >>

\* the variables of the workers and of their database, but for the plans
\* and the driver
workerVars ==
  << table, pc, call, err, initCalled, creates, createErrs, stepID, more, tbl0, log >>

vars ==
  << plans, txDDL, table, workers, pc, call, err, initCalled, creates, createErrs,
     stepID, more, tbl0, log, handles, definitions, errs, schemaPlans, result >>

----------------------------------------------------------------------------
\* Sorting of id sets

Max(S) == CHOOSE x \in S : \A y \in S : y <= x

Min(S) == CHOOSE x \in S : \A y \in S : x <= y

RECURSIVE SortDesc(_)
SortDesc(S) == IF S = {} THEN << >> ELSE << Max(S) >> \o SortDesc(S \ {Max(S)})

RECURSIVE SortAsc(_)
SortAsc(S) == IF S = {} THEN << >> ELSE << Min(S) >> \o SortAsc(S \ {Min(S)})

----------------------------------------------------------------------------
\* Errors

NoErr == [kind |-> "none", id |-> 0]

Error(k, i) == [kind |-> k, id |-> i]

----------------------------------------------------------------------------
\* The driver's statements on the version table

\* the applied time of a row: the clock is one instant; a version without a
\* row has none
Never == "nil"

Now == "now"

Row(i, f, l) == [id |-> i, appliedAt |-> Now, failed |-> f, locked |-> l]

\* the Version reported for a plan that has no row
Placeholder(i) == [id |-> i, appliedAt |-> Never, failed |-> FALSE, locked |-> FALSE]

RowIDs(tbl) == {r.id : r \in tbl}

RowOf(tbl, i) == CHOOSE r \in tbl : r.id = i

\* mutant: the insert replaces a row that has the same id
InsertVersionReplace(tbl, ver) ==
  [ok |-> TRUE, tbl |-> {r \in tbl : r.id # ver.id} \cup {ver}]

\* insert into T(id, ..., failed, locked): id is the primary key
InsertVersion(tbl, ver) ==
  IF ver.id \in RowIDs(tbl)
    THEN [ok |-> FALSE, tbl |-> tbl]
    ELSE [ok |-> TRUE, tbl |-> tbl \cup {ver}]

\* delete from T where id = i
DeleteVersion(tbl, i) == {r \in tbl : r.id # i}

\* update T set failed = b where id = i
SetVersionFailed(tbl, i, b) ==
  {IF r.id = i THEN [r EXCEPT !.failed = b] ELSE r : r \in tbl}

\* mutant: the update has no where clause
SetVersionLockedAll(tbl, i, b) == {[r EXCEPT !.locked = b] : r \in tbl}

\* update T set locked = b where id = i
SetVersionLocked(tbl, i, b) ==
  {IF r.id = i THEN [r EXCEPT !.locked = b] ELSE r : r \in tbl}

\* select ... from T order by id
ListVersions(tbl) == [k \in 1 .. Cardinality(tbl) |-> RowOf(tbl, SortAsc(RowIDs(tbl))[k])]

SupportsTransactionalDDL == txDDL

----------------------------------------------------------------------------
\* The version summary

SeqToSet(s) == {s[k] : k \in 1 .. Len(s)}

\* mutant: the versions are the rows listed, without placeholders
SummaryVersionsRows(tbl) == ListVersions(tbl)

\* the rows read, then a placeholder for every plan without a row, by id
SummaryVersions(tbl) ==
  LET listed == ListVersions(tbl)
      have == {listed[k].id : k \in 1 .. Len(listed)}
      all == SeqToSet(listed) \cup {Placeholder(p) : p \in (DOMAIN plans) \ have}
  IN  [k \in 1 .. Cardinality(all) |->
         CHOOSE r \in all : r.id = SortAsc({x.id : x \in all})[k]]

getVersionSummaryAllowFailed(tbl) ==
  LET have == RowIDs(tbl)
  IN  [ versions |-> SummaryVersions(tbl),
        applied |-> SortDesc({p \in DOMAIN plans : p \in have}),
        unapplied |-> SortAsc({p \in DOMAIN plans : p \notin have}),
        vmap |-> [p \in have \cup DOMAIN plans |->
                    IF p \in have THEN RowOf(tbl, p) ELSE Placeholder(p)] ]

\* mutant: only the lowest version of the summary is looked at
previouslyFailedLowest(vs) == Len(vs.versions) > 0 /\ vs.versions[1].failed

\* mutant: the failed rows are not looked at
previouslyFailedIgnored(vs) == FALSE

\* the check getVersionSummary adds: some version is marked failed
previouslyFailed(vs) == \E k \in 1 .. Len(vs.versions) : vs.versions[k].failed

\* mutant: only the highest applied plan is scanned
AboveTargetHead(vs, id) == {k \in 1 .. Min({1, Len(vs.applied)}) : vs.applied[k] > id}

\* ids of the applied plans scanned before the first one at or below id
AboveTarget(vs, id) == {k \in 1 .. Len(vs.applied) : \A j \in 1 .. k : vs.applied[j] > id}

\* mutant: the scan goes on to the applied version at the target itself
checkLockedInclusive(vs, id) ==
  LET hit == {k \in 1 .. Len(vs.applied) :
                vs.applied[k] >= id /\ vs.vmap[vs.applied[k]].locked}
  IN  IF hit = {} THEN NoErr ELSE Error("locked", vs.applied[Min(hit)])

\* mutant: no applied version counts as locked
checkLockedNone(vs, id) == NoErr

\* mutant: the scan reports the last locked version it meets, not the first
checkLockedLowest(vs, id) ==
  LET hit == {k \in AboveTarget(vs, id) : vs.vmap[vs.applied[k]].locked}
  IN  IF hit = {} THEN NoErr ELSE Error("locked", vs.applied[Max(hit)])

checkLocked(vs, id) ==
  LET hit == {k \in AboveTarget(vs, id) : vs.vmap[vs.applied[k]].locked}
  IN  IF hit = {} THEN NoErr ELSE Error("locked", vs.applied[Min(hit)])

\* mutant: every id passes for a defined version
checkVersionAny(id) == TRUE

\* the id has a definition in the schema
checkVersion(id) == id \in DOMAIN definitions

----------------------------------------------------------------------------
\* Local state of a worker

Set(f, w, v) == [f EXCEPT ![w] = v]

\* a migration action was run: its direction and version, whether it ran in
\* the step's transaction, whether it returned nil, and whether the step was
\* committed (inside a transaction) or the action succeeded (outside)
Event(d, i, inTx, ok, done) == [dir |-> d, id |-> i, tx |-> inTx, ok |-> ok, done |-> done]

\* the operation returns e to its caller
Return(w, e) ==
  /\ pc' = Set(pc, w, "idle")
  /\ err' = Set(err, w, e)
  /\ stepID' = Set(stepID, w, 0)
  /\ more' = Set(more, w, FALSE)

\* the step the loop of the running operation performs next
LoopStep(name) ==
  CASE name = "Up" -> "upOne"
    [] name = "Down" -> "downOne"
    [] OTHER -> "gotoOne"

\* mutant: the loop goes on whatever the step reported
ContinueAlways(w, m) ==
  /\ pc' = Set(pc, w, LoopStep(call[w].name))
  /\ stepID' = Set(stepID, w, 0)
  /\ more' = Set(more, w, FALSE)
  /\ UNCHANGED err

\* upOne/downOne returned (m, nil): Up and Down loop on m, Goto on the
\* value gotoOne computed from its counts; the loop ends with finished()
Continue(w, m) ==
  LET again == IF call[w].name = "Goto" THEN more[w] ELSE m
  IN  IF again
        THEN /\ pc' = Set(pc, w, LoopStep(call[w].name))
             /\ stepID' = Set(stepID, w, 0)
             /\ more' = Set(more, w, FALSE)
             /\ UNCHANGED err
        ELSE Return(w, NoErr)

\* upOne/downOne hands the step to its NoTx helper
HandOver(w, next, id, m) ==
  /\ pc' = Set(pc, w, next)
  /\ stepID' = Set(stepID, w, id)
  /\ more' = Set(more, w, IF call[w].name = "Goto" THEN more[w] ELSE m)
  /\ UNCHANGED err

\* a public operation is entered: the id check, then init()
\* mutant: init marks the worker initialised whatever the database answers
initDoneAlways(w, createOK) == Set(initCalled, w, TRUE)

\* Worker.init when initCalled is not set: the flag after the call of
\* CreateMigrationsTable
initDone(w, createOK) == Set(initCalled, w, createOK)

Enter(w, name, id, valid, first) ==
  /\ w \in workers
  /\ pc[w] = "idle"
  /\ call' = Set(call, w, [name |-> name, id |-> id])
  /\ tbl0' = Set(tbl0, w, table)
  /\ log' = Set(log, w, << >>)
  /\ stepID' = Set(stepID, w, 0)
  /\ more' = Set(more, w, FALSE)
  /\ IF ~valid
       THEN /\ pc' = Set(pc, w, "idle")
            /\ err' = Set(err, w, Error("invalid", id))
            /\ UNCHANGED << initCalled, creates, createErrs >>
       ELSE IF initCalled[w]
         THEN /\ pc' = Set(pc, w, first)
              /\ err' = Set(err, w, NoErr)
              /\ UNCHANGED << initCalled, creates, createErrs >>
         ELSE \E createOK \in {TRUE} \cup {b \in {FALSE} : createErrs > 0} :
                /\ creates' = Set(creates, w, creates[w] + 1)
                /\ createErrs' = IF createOK THEN createErrs ELSE createErrs - 1
                /\ initCalled' = initDone(w, createOK)
                /\ IF createOK
                     THEN pc' = Set(pc, w, first) /\ err' = Set(err, w, NoErr)
                     ELSE pc' = Set(pc, w, "idle") /\ err' = Set(err, w, Error("init", 0))
  /\ UNCHANGED << schemaVars, plans, txDDL, table, workers >>

----------------------------------------------------------------------------
\* The public operations

Up(w) == Enter(w, "Up", 0, TRUE, "upOne")

Down(w) == Enter(w, "Down", 0, TRUE, "downOne")

Goto(w, id) == Enter(w, "Goto", id, id = 0 \/ checkVersion(id), "gotoOne")

Force(w, id) == Enter(w, "Force", id, id = 0 \/ checkVersion(id), "Force")

Lock(w, id) == Enter(w, "Lock", id, checkVersion(id), "lockHelper")

Unlock(w, id) == Enter(w, "Unlock", id, checkVersion(id), "lockHelper")

Version(w, id) == Enter(w, "Version", id, checkVersion(id), "Version")

Versions(w) == Enter(w, "Versions", 0, TRUE, "Versions")

----------------------------------------------------------------------------
\* The steps of Up, Down and Goto

\* mutant: the driver alone decides, whatever the kind of action
noTxDriverOnly(act) == ~SupportsTransactionalDDL

\* mutant: every action goes through the two-phase protocol
noTxAlways(act) == TRUE

\* the step leaves the open transaction: the action is no TxFunc, and it is
\* a DBFunc or the driver has no transactional DDL
noTx(act) == act # "txFunc" /\ (~SupportsTransactionalDDL \/ act = "dbFunc")

\* the row upOne inserts once the action ran in the transaction
appliedVersion(id) == Row(id, FALSE, FALSE)

\* mutant: the record is inserted without the failed status
pendingVersionClean(id) == Row(id, FALSE, FALSE)

\* mutant: the row is inserted failed and locked
pendingVersionLocked(id) == Row(id, TRUE, TRUE)

\* the row upOneNoTx inserts before the action runs
pendingVersion(id) == Row(id, TRUE, FALSE)

\* the update downOneNoTx makes before the action runs
markDown(tbl, id) == SetVersionFailed(tbl, id, FALSE)

\* mutant: the last unapplied plan is selected
upPlanLast(vs) == vs.unapplied[Len(vs.unapplied)]

\* upOne selects the first unapplied plan
upPlan(vs) == vs.unapplied[1]

\* mutant: the error of the action is dropped and the row inserted
upInTxIgnoreErr(tbl, id, actOK, writeOK) ==
  LET ins == InsertVersion(tbl, Row(id, FALSE, FALSE))
  IN  IF writeOK /\ ins.ok
        THEN [err |-> NoErr, tbl |-> ins.tbl]
        ELSE [err |-> Error("store", id), tbl |-> tbl]

\* upOne, the step inside its transaction: the action, then the insert of
\* the version row; an error returned ends the function before the rest
upInTx(tbl, id, actOK, writeOK) ==
  LET ins == InsertVersion(tbl, appliedVersion(id))
  IN  IF ~actOK
        THEN [err |-> Error("action", id), tbl |-> tbl]
        ELSE IF writeOK /\ ins.ok
          THEN [err |-> NoErr, tbl |-> ins.tbl]
          ELSE [err |-> Error("store", id), tbl |-> tbl]

\* transact: commit what fn wrote when it returns nil, roll back otherwise
transact(tbl, res) == IF res.err = NoErr THEN res.tbl ELSE tbl

upOne(w) ==
  /\ w \in workers
  /\ pc[w] = "upOne"
  /\ LET vs == getVersionSummaryAllowFailed(table)
     IN  IF previouslyFailed(vs)
           THEN Return(w, Error("failed", 0)) /\ UNCHANGED << table, log >>
           ELSE IF Len(vs.unapplied) = 0
             THEN Continue(w, FALSE) /\ UNCHANGED << table, log >>
             ELSE LET id == upPlan(vs)
                      m == Len(vs.unapplied) > 1
                  IN  IF noTx(plans[id].up)
                        THEN HandOver(w, "upOneNoTx", id, m) /\ UNCHANGED << table, log >>
                        ELSE \E actOK \in BOOLEAN, writeOK \in BOOLEAN :
                               LET res == upInTx(table, id, actOK, writeOK)
                               IN  /\ log' = Set(log, w, Append(log[w], Event("up", id, TRUE, actOK, res.err = NoErr)))
                                   /\ table' = transact(table, res)
                                   /\ IF res.err = NoErr THEN Continue(w, m) ELSE Return(w, res.err)
  /\ UNCHANGED << schemaVars, plans, txDDL, workers, call, initCalled, creates, createErrs, tbl0 >>

\* mutant: the action runs even when the insert of the row failed
upOneNoTxInsertIgnoreErr(w) ==
  /\ w \in workers
  /\ pc[w] = "upOneNoTx"
  /\ \E writeOK \in BOOLEAN :
       LET ins == InsertVersion(table, pendingVersion(stepID[w]))
       IN  /\ table' = IF writeOK /\ ins.ok THEN ins.tbl ELSE table
           /\ pc' = Set(pc, w, "upOneNoTxExec")
           /\ UNCHANGED << err, stepID, more >>
  /\ UNCHANGED << schemaVars, plans, txDDL, workers, call, initCalled, creates, createErrs, tbl0, log >>

\* upOneNoTx, first transaction: the version record with failed status
upOneNoTxInsert(w) ==
  /\ w \in workers
  /\ pc[w] = "upOneNoTx"
  /\ \E writeOK \in BOOLEAN :
       LET ins == InsertVersion(table, pendingVersion(stepID[w]))
       IN  IF writeOK /\ ins.ok
             THEN /\ table' = ins.tbl
                  /\ pc' = Set(pc, w, "upOneNoTxExec")
                  /\ UNCHANGED << err, stepID, more >>
             ELSE Return(w, Error("store", stepID[w])) /\ UNCHANGED table
  /\ UNCHANGED << schemaVars, plans, txDDL, workers, call, initCalled, creates, createErrs, tbl0, log >>

\* upOneNoTx: the action, on the connection
upOneNoTxExec(w) ==
  /\ w \in workers
  /\ pc[w] = "upOneNoTxExec"
  /\ \E actOK \in BOOLEAN :
       /\ log' = Set(log, w, Append(log[w], Event("up", stepID[w], FALSE, actOK, actOK)))
       /\ IF actOK
            THEN pc' = Set(pc, w, "upOneNoTxClear") /\ UNCHANGED << err, stepID, more >>
            ELSE Return(w, Error("action", stepID[w]))
  /\ UNCHANGED << schemaVars, plans, txDDL, table, workers, call, initCalled, creates, createErrs, tbl0 >>

\* upOneNoTx, second transaction: mark the version as successful
upOneNoTxClear(w) ==
  /\ w \in workers
  /\ pc[w] = "upOneNoTxClear"
  /\ \E writeOK \in BOOLEAN :
       IF writeOK
         THEN table' = SetVersionFailed(table, stepID[w], FALSE) /\ Continue(w, more[w])
         ELSE Return(w, Error("store", stepID[w])) /\ UNCHANGED table
  /\ UNCHANGED << schemaVars, plans, txDDL, workers, call, initCalled, creates, createErrs, tbl0, log >>

\* mutant: the lock of the version is not read
versionOfUnlocked(vs, id) == Row(id, FALSE, FALSE)

\* downOne looks up the version of the plan it is about to reverse
versionOf(vs, id) == vs.versions[CHOOSE k \in 1 .. Len(vs.versions) : vs.versions[k].id = id]

\* downOne, the step inside its transaction: the action, then the delete of
\* the version row
downInTx(tbl, id, actOK, writeOK) ==
  IF ~actOK
    THEN [err |-> Error("action", id), tbl |-> tbl]
    ELSE IF writeOK
      THEN [err |-> NoErr, tbl |-> DeleteVersion(tbl, id)]
      ELSE [err |-> Error("store", id), tbl |-> tbl]

downOne(w) ==
  /\ w \in workers
  /\ pc[w] = "downOne"
  /\ LET vs == getVersionSummaryAllowFailed(table)
     IN  IF previouslyFailed(vs)
           THEN Return(w, Error("failed", 0)) /\ UNCHANGED << table, log >>
           ELSE IF Len(vs.applied) = 0
             THEN Continue(w, FALSE) /\ UNCHANGED << table, log >>
             ELSE LET id == vs.applied[1]
                      m == Len(vs.applied) > 1
                  IN  IF versionOf(vs, id).locked
                        THEN Continue(w, FALSE) /\ UNCHANGED << table, log >>
                        ELSE IF noTx(plans[id].down)
                          THEN HandOver(w, "downOneNoTx", id, m) /\ UNCHANGED << table, log >>
                          ELSE \E actOK \in BOOLEAN, writeOK \in BOOLEAN :
                                 LET res == downInTx(table, id, actOK, writeOK)
                                 IN  /\ log' = Set(log, w, Append(log[w], Event("down", id, TRUE, actOK, res.err = NoErr)))
                                     /\ table' = transact(table, res)
                                     /\ IF res.err = NoErr THEN Continue(w, m) ELSE Return(w, res.err)
  /\ UNCHANGED << schemaVars, plans, txDDL, workers, call, initCalled, creates, createErrs, tbl0 >>

\* downOneNoTx, first transaction
downOneNoTxMark(w) ==
  /\ w \in workers
  /\ pc[w] = "downOneNoTx"
  /\ \E writeOK \in BOOLEAN :
       IF writeOK
         THEN /\ table' = markDown(table, stepID[w])
              /\ pc' = Set(pc, w, "downOneNoTxExec")
              /\ UNCHANGED << err, stepID, more >>
         ELSE Return(w, Error("store", stepID[w])) /\ UNCHANGED table
  /\ UNCHANGED << schemaVars, plans, txDDL, workers, call, initCalled, creates, createErrs, tbl0, log >>

\* downOneNoTx: the action, on the connection
downOneNoTxExec(w) ==
  /\ w \in workers
  /\ pc[w] = "downOneNoTxExec"
  /\ \E actOK \in BOOLEAN :
       /\ log' = Set(log, w, Append(log[w], Event("down", stepID[w], FALSE, actOK, actOK)))
       /\ IF actOK
            THEN pc' = Set(pc, w, "downOneNoTxDelete") /\ UNCHANGED << err, stepID, more >>
            ELSE Return(w, Error("action", stepID[w]))
  /\ UNCHANGED << schemaVars, plans, txDDL, table, workers, call, initCalled, creates, createErrs, tbl0 >>

\* downOneNoTx, second transaction: delete the version record
downOneNoTxDelete(w) ==
  /\ w \in workers
  /\ pc[w] = "downOneNoTxDelete"
  /\ \E writeOK \in BOOLEAN :
       IF writeOK
         THEN table' = DeleteVersion(table, stepID[w]) /\ Continue(w, more[w])
         ELSE Return(w, Error("store", stepID[w])) /\ UNCHANGED table
  /\ UNCHANGED << schemaVars, plans, txDDL, workers, call, initCalled, creates, createErrs, tbl0, log >>

\* mutant: the plan of the target itself is counted for reversal
downCountInclusive(vs, id) ==
  Cardinality({k \in 1 .. Len(vs.applied) : \A j \in 1 .. k : vs.applied[j] >= id})

\* applied plans gotoOne counts for reversal: those above id
downCount(vs, id) == Cardinality(AboveTarget(vs, id))

\* mutant: the plan of the target itself is not counted
upCountBelow(vs, id) ==
  Cardinality({k \in 1 .. Len(vs.unapplied) : \A j \in 1 .. k : vs.unapplied[j] < id})

\* unapplied plans gotoOne counts for application: those at or below id
upCount(vs, id) ==
  Cardinality({k \in 1 .. Len(vs.unapplied) : \A j \in 1 .. k : vs.unapplied[j] <= id})

\* mutant: an up step is chosen whenever one is pending
gotoOneUpFirst(w) ==
  /\ w \in workers
  /\ pc[w] = "gotoOne"
  /\ LET vs == getVersionSummaryAllowFailed(table)
         id == call[w].id
         locked == checkLocked(vs, id)
         total == upCount(vs, id) + downCount(vs, id)
     IN  IF previouslyFailed(vs)
           THEN Return(w, Error("failed", 0))
           ELSE IF locked # NoErr
             THEN Return(w, locked)
             ELSE IF total = 0
               THEN Return(w, NoErr)
               ELSE /\ pc' = Set(pc, w, IF upCount(vs, id) > 0 THEN "upOne" ELSE "downOne")
                    /\ more' = Set(more, w, total - 1 > 0)
                    /\ UNCHANGED << err, stepID >>
  /\ UNCHANGED << schemaVars, plans, txDDL, table, workers, call, initCalled, creates, createErrs, tbl0, log >>

gotoOne(w) ==
  /\ w \in workers
  /\ pc[w] = "gotoOne"
  /\ LET vs == getVersionSummaryAllowFailed(table)
         id == call[w].id
         locked == checkLocked(vs, id)
         total == upCount(vs, id) + downCount(vs, id)
     IN  IF previouslyFailed(vs)
           THEN Return(w, Error("failed", 0))
           ELSE IF locked # NoErr
             THEN Return(w, locked)
             ELSE IF total = 0
               THEN Return(w, NoErr)
               ELSE /\ pc' = Set(pc, w, IF downCount(vs, id) > 0 THEN "downOne" ELSE "upOne")
                    /\ more' = Set(more, w, total - 1 > 0)
                    /\ UNCHANGED << err, stepID >>
  /\ UNCHANGED << schemaVars, plans, txDDL, table, workers, call, initCalled, creates, createErrs, tbl0, log >>

----------------------------------------------------------------------------
\* Lock, Unlock, Force, Version, Versions: one transaction each

\* mutant: every id passes for an applied version
foundAlways(vs, id) == TRUE

\* the search of the applied plans for the version id
found(vs, id) == \E k \in 1 .. Len(vs.applied) : vs.applied[k] = id

lockHelper(w) ==
  /\ w \in workers
  /\ pc[w] = "lockHelper"
  /\ LET vs == getVersionSummaryAllowFailed(table)
         id == call[w].id
     IN  IF previouslyFailed(vs)
           THEN Return(w, Error("failed", 0)) /\ UNCHANGED table
           ELSE IF ~found(vs, id)
             THEN Return(w, Error("unapplied", id)) /\ UNCHANGED table
             ELSE \E writeOK \in BOOLEAN :
                    IF writeOK
                      THEN /\ table' = SetVersionLocked(table, id, call[w].name = "Lock")
                           /\ Return(w, NoErr)
                      ELSE Return(w, Error("store", id)) /\ UNCHANGED table
  /\ UNCHANGED << schemaVars, plans, txDDL, workers, call, initCalled, creates, createErrs, tbl0, log >>

\* mutant: the row of the target is deleted as well
forceDeletedInclusive(vs, id) == {p \in SeqToSet(vs.applied) : vs.vmap[p].id >= id}

\* mutant: Force deletes the applied plans below id
forceDeletedBelow(vs, id) == {p \in SeqToSet(vs.applied) : vs.vmap[p].id < id}

\* rows Force deletes: the applied plans above id
forceDeleted(vs, id) == {p \in SeqToSet(vs.applied) : vs.vmap[p].id > id}

\* mutant: Force clears the failure of the version it is given only
forceClearedTarget(vs, id) == {p \in SeqToSet(vs.applied) : vs.vmap[p].id = id /\ vs.vmap[p].failed}

\* mutant: Force clears no failure
forceClearedNone(vs, id) == {}

\* rows Force clears the failure of: the other applied plans marked failed
forceCleared(vs, id) == {p \in SeqToSet(vs.applied) : ~(vs.vmap[p].id > id) /\ vs.vmap[p].failed}

\* the table after the loop of Force over the applied plans
forceTable(vs, tbl, id) ==
  {IF r.id \in forceCleared(vs, id) THEN [r EXCEPT !.failed = FALSE] ELSE r :
     r \in {x \in tbl : x.id \notin forceDeleted(vs, id)}}

ForceTx(w) ==
  /\ w \in workers
  /\ pc[w] = "Force"
  /\ LET vs == getVersionSummaryAllowFailed(table)
         id == call[w].id
         locked == checkLocked(vs, id)
     IN  IF locked # NoErr
           THEN Return(w, locked) /\ UNCHANGED table
           ELSE IF id # 0 /\ ~found(vs, id)
             THEN Return(w, Error("unapplied", id)) /\ UNCHANGED table
             ELSE \E writeOK \in BOOLEAN :
                    IF writeOK \/ forceDeleted(vs, id) \cup forceCleared(vs, id) = {}
                      THEN table' = forceTable(vs, table, id) /\ Return(w, NoErr)
                      ELSE Return(w, Error("store", id)) /\ UNCHANGED table
  /\ UNCHANGED << schemaVars, plans, txDDL, workers, call, initCalled, creates, createErrs, tbl0, log >>

\* mutant: Version refuses to read a table with a failed row
lookupVersionGated(vs, id) ==
  IF previouslyFailed(vs) THEN Error("failed", 0)
  ELSE IF \E k \in 1 .. Len(vs.versions) : vs.versions[k].id = id THEN NoErr
  ELSE Error("notfound", id)

\* Version searches the versions of the summary for the id
lookupVersion(vs, id) ==
  IF \E k \in 1 .. Len(vs.versions) : vs.versions[k].id = id
    THEN NoErr
    ELSE Error("notfound", id)

VersionTx(w) ==
  /\ w \in workers
  /\ pc[w] = "Version"
  /\ Return(w, lookupVersion(getVersionSummaryAllowFailed(table), call[w].id))
  /\ UNCHANGED << schemaVars, plans, txDDL, table, workers, call, initCalled, creates, createErrs, tbl0, log >>

VersionsTx(w) ==
  /\ w \in workers
  /\ pc[w] = "Versions"
  /\ Return(w, NoErr)
  /\ UNCHANGED << schemaVars, plans, txDDL, table, workers, call, initCalled, creates, createErrs, tbl0, log >>

----------------------------------------------------------------------------
\* The schema: definitions, their compilation into plans, Err and NewWorker

\* the highest version id passed to Define and Replay
MaxID == 1

\* version ids passed to Define and Replay; Define takes any VersionID
DefineIDs == 0 .. MaxID

\* number of calls of Define
MaxDefine == 2

\* number of calls of Up, UpAction, Down and DownAction on all Definitions
MaxSets == 3

\* the action struct with no field set
ZeroAction == [sql |-> "", dbFunc |-> FALSE, txFunc |-> FALSE, replayUp |-> {}]

\* the Action values: nil, and what Command, DBFunc, TxFunc and Replay return
NoAction == [kind |-> "nil", sql |-> "", id |-> 0]

Command(sql) == [kind |-> "Command", sql |-> sql, id |-> 0]

DBFunc == [kind |-> "DBFunc", sql |-> "", id |-> 0]

TxFunc == [kind |-> "TxFunc", sql |-> "", id |-> 0]

Replay(id) == [kind |-> "Replay", sql |-> "", id |-> id]

\* the call of an Action on an action struct: it sets one field
Apply(act, a) ==
  CASE act.kind = "Command" -> [a EXCEPT !.sql = act.sql]
    [] act.kind = "DBFunc" -> [a EXCEPT !.dbFunc = TRUE]
    [] act.kind = "TxFunc" -> [a EXCEPT !.txFunc = TRUE]
    [] act.kind = "Replay" -> [a EXCEPT !.replayUp = {act.id}]
    [] OTHER -> a

newDefinition(id) ==
  [id |-> id, upAction |-> NoAction, upCount |-> 0,
   downAction |-> NoAction, downCount |-> 0]

\* an Error: the version, the description, and the number formatted into it
DefinitionError(v, d, n) == [version |-> v, description |-> d, n |-> n]

\* mutant: Definition.errs returns at the first error it finds
definitionErrsFirst(d) ==
  IF d.upCount = 0
    THEN << DefinitionError(d.id, "up migration not defined", 0) >>
    ELSE IF d.upCount > 1
      THEN << DefinitionError(d.id, "up migration defined %d times", d.upCount) >>
      ELSE IF d.downCount = 0
        THEN << DefinitionError(d.id, "down migration not defined", 0) >>
        ELSE IF d.downCount > 1
          THEN << DefinitionError(d.id, "down migration defined %d times", d.downCount) >>
          ELSE << >>

\* Definition.errs
definitionErrs(d) ==
  (IF d.upCount = 0
     THEN << DefinitionError(d.id, "up migration not defined", 0) >> ELSE << >>)
  \o (IF d.upCount > 1
        THEN << DefinitionError(d.id, "up migration defined %d times", d.upCount) >>
        ELSE << >>)
  \o (IF d.downCount = 0
        THEN << DefinitionError(d.id, "down migration not defined", 0) >> ELSE << >>)
  \o (IF d.downCount > 1
        THEN << DefinitionError(d.id, "down migration defined %d times", d.downCount) >>
        ELSE << >>)

\* mutant: a replay of the version itself passes the first test
replayUpStrict(a, id, compiled) ==
  IF a.replayUp = {}
    THEN [a |-> a, errs |-> << >>]
    ELSE LET replayID == CHOOSE t \in a.replayUp : TRUE
         IN  IF replayID > id
               THEN [a |-> a,
                     errs |-> << DefinitionError(id, "replay must specify an earlier version", 0) >>]
               ELSE IF replayID \notin DOMAIN compiled
                 THEN [a |-> a,
                       errs |-> << DefinitionError(id, "replay refers to unknown version %d",
                                                   replayID) >>]
                 ELSE [a |-> compiled[replayID].up, errs |-> << >>]

\* mutant: a replay of a version without a plan is left as it is
replayUpNoUnknown(a, id, compiled) ==
  IF a.replayUp = {}
    THEN [a |-> a, errs |-> << >>]
    ELSE LET replayID == CHOOSE t \in a.replayUp : TRUE
         IN  IF replayID >= id
               THEN [a |-> a,
                     errs |-> << DefinitionError(id, "replay must specify an earlier version", 0) >>]
               ELSE IF replayID \notin DOMAIN compiled
                 THEN [a |-> a, errs |-> << >>]
                 ELSE [a |-> compiled[replayID].up, errs |-> << >>]

\* mutant: a replay takes the resolved down action of the earlier plan
replayUpDown(a, id, compiled) ==
  IF a.replayUp = {}
    THEN [a |-> a, errs |-> << >>]
    ELSE LET replayID == CHOOSE t \in a.replayUp : TRUE
         IN  IF replayID >= id
               THEN [a |-> a,
                     errs |-> << DefinitionError(id, "replay must specify an earlier version", 0) >>]
               ELSE IF replayID \notin DOMAIN compiled
                 THEN [a |-> a,
                       errs |-> << DefinitionError(id, "replay refers to unknown version %d",
                                                   replayID) >>]
                 ELSE [a |-> compiled[replayID].down, errs |-> << >>]

\* newPlan's closure replayUp on action a of the plan id, with the plans
\* compiled so far: the action it leaves and the errors it adds
replayUp(a, id, compiled) ==
  IF a.replayUp = {}
    THEN [a |-> a, errs |-> << >>]
    ELSE LET replayID == CHOOSE t \in a.replayUp : TRUE
         IN  IF replayID >= id
               THEN [a |-> a,
                     errs |-> << DefinitionError(id, "replay must specify an earlier version", 0) >>]
               ELSE IF replayID \notin DOMAIN compiled
                 THEN [a |-> a,
                       errs |-> << DefinitionError(id, "replay refers to unknown version %d",
                                                   replayID) >>]
                 ELSE [a |-> compiled[replayID].up, errs |-> << >>]

newPlan(def, compiled) ==
  LET u == replayUp(Apply(def.upAction, ZeroAction), def.id, compiled)
      d == replayUp(Apply(def.downAction, ZeroAction), def.id, compiled)
  IN  [id |-> def.id, up |-> u.a, down |-> d.a,
       errs |-> definitionErrs(def) \o u.errs \o d.errs]

\* the orders in which the range over the map s.definitions may yield its keys
Orders(defs) ==
  {o \in [1 .. Cardinality(DOMAIN defs) -> DOMAIN defs] :
     \A i, j \in DOMAIN o : i # j => o[i] # o[j]}

\* mutant: the ids are left in the order of the map iteration
sortIDsNone(ids) == ids

\* sort.Slice(ids, ids[i] < ids[j])
sortIDs(ids) == SortAsc(SeqToSet(ids))

\* the loop of complete over ids from position k, list being s.plans so far
RECURSIVE completeLoop(_, _, _, _, _)
completeLoop(hs, defs, ids, k, list) ==
  IF k > Len(ids)
    THEN list
    ELSE LET compiled == [i \in {list[j].id : j \in 1 .. Len(list)} |->
                            list[CHOOSE j \in 1 .. Len(list) : list[j].id = i]]
             p == newPlan(hs[defs[ids[k]]], compiled)
         IN  completeLoop(hs, defs, ids, k + 1, Append(list, p))

\* Schema.plans when it is nil
NilPlans == [nil |-> TRUE, list |-> << >>]

\* Schema.complete, the map iteration yielding the ids in the given order
complete(hs, defs, sp, order) ==
  IF ~sp.nil
    THEN sp
    ELSE [nil |-> FALSE, list |-> completeLoop(hs, defs, sortIDs(order), 1, << >>)]

\* the errors Err collects: s.errs, then the errors of each plan
RECURSIVE planErrs(_)
planErrs(list) == IF list = << >> THEN << >> ELSE Head(list).errs \o planErrs(Tail(list))

\* an error value: nil, or Errors with at least one Error
NilErr == [kind |-> "nil", list |-> << >>]

ErrValue(es, list) ==
  LET all == es \o planErrs(list)
  IN  IF Len(all) > 0 THEN [kind |-> "Errors", list |-> all] ELSE NilErr

\* no call of Err or NewWorker since the schema was last changed
NoResult == [op |-> "none", worker |-> FALSE, err |-> NilErr]

\* the error of findDriver
DriverErr == [kind |-> "cannot find migration driver", list |-> << >>]

\* the kind of action the steps of a worker find in a plan
KindOf(a) == IF a.txFunc THEN "txFunc" ELSE IF a.dbFunc THEN "dbFunc" ELSE "sql"

\* the plans a worker reads through its pointer to the Schema
WorkerPlans(sp) ==
  [i \in {sp.list[j].id : j \in 1 .. Len(sp.list)} |->
     LET p == sp.list[CHOOSE j \in 1 .. Len(sp.list) : sp.list[j].id = i]
     IN  [up |-> KindOf(p.up), down |-> KindOf(p.down)]]

Shared(sp) == plans' = IF workers = {} THEN plans ELSE WorkerPlans(sp)

\* mutant: a second Define of an id replaces the first and records nothing
DefineReplacing(id) ==
  /\ Len(handles) < MaxDefine
  /\ handles' = Append(handles, newDefinition(id))
  /\ definitions' = [i \in DOMAIN definitions \cup {id} |->
                       IF i = id THEN Len(handles) + 1 ELSE definitions[i]]
  /\ UNCHANGED errs
  /\ schemaPlans' = NilPlans
  /\ Shared(NilPlans)
  /\ result' = NoResult
  /\ UNCHANGED << txDDL, workers, workerVars >>

Define(id) ==
  /\ Len(handles) < MaxDefine
  /\ handles' = Append(handles, newDefinition(id))
  /\ IF id \in DOMAIN definitions
       THEN /\ errs' = Append(errs, DefinitionError(id, "defined more than once", 0))
            /\ UNCHANGED definitions
       ELSE /\ definitions' = [i \in DOMAIN definitions \cup {id} |->
                                 IF i = id THEN Len(handles) + 1 ELSE definitions[i]]
            /\ UNCHANGED errs
  /\ schemaPlans' = NilPlans
  /\ Shared(NilPlans)
  /\ result' = NoResult
  /\ UNCHANGED << txDDL, workers, workerVars >>

\* number of calls of Up, UpAction, Down and DownAction so far
RECURSIVE SetCalls(_)
SetCalls(hs) ==
  IF hs = << >> THEN 0 ELSE Head(hs).upCount + Head(hs).downCount + SetCalls(Tail(hs))

\* the command passed to Up or Down of the h-th Definition
sqlOf(h, dir) == dir \o " " \o ToString(h)

\* the actions passed to UpAction and DownAction
Actions == {DBFunc, TxFunc} \cup {Replay(t) : t \in DefineIDs}

UpAction(h, a) ==
  /\ h \in DOMAIN handles
  /\ SetCalls(handles) < MaxSets
  /\ handles' = [handles EXCEPT ![h].upCount = @ + 1, ![h].upAction = a]
  /\ result' = NoResult
  /\ UNCHANGED << definitions, errs, schemaPlans, plans, txDDL, workers, workerVars >>

DownAction(h, a) ==
  /\ h \in DOMAIN handles
  /\ SetCalls(handles) < MaxSets
  /\ handles' = [handles EXCEPT ![h].downCount = @ + 1, ![h].downAction = a]
  /\ result' = NoResult
  /\ UNCHANGED << definitions, errs, schemaPlans, plans, txDDL, workers, workerVars >>

DefinitionUp(h) == UpAction(h, Command(sqlOf(h, "up")))

DefinitionDown(h) == DownAction(h, Command(sqlOf(h, "down")))

Err ==
  \E order \in Orders(definitions) :
    LET sp == complete(handles, definitions, schemaPlans, order)
    IN  /\ schemaPlans' = sp
        /\ Shared(sp)
        /\ result' = [op |-> "Err", worker |-> FALSE, err |-> ErrValue(errs, sp.list)]
        /\ UNCHANGED << handles, definitions, errs, txDDL, workers, workerVars >>

\* the drivers findDriver knows, and a database of none of them
Drivers == {"postgres", "sqlite3", "mysql", "unknown"}

\* mutant: NewWorker looks at the errors of Define only
newWorkerErrDefine(es, list) == ErrValue(es, << >>)

\* the error NewWorker returns for the schema
newWorkerErr(es, list) == ErrValue(es, list)

NewWorker(w) ==
  /\ w \in Workers \ workers
  /\ \E order \in Orders(definitions), drv \in Drivers :
       LET sp == complete(handles, definitions, schemaPlans, order)
           e == newWorkerErr(errs, sp.list)
       IN  /\ schemaPlans' = sp
           /\ IF e # NilErr
                THEN /\ result' = [op |-> "NewWorker", worker |-> FALSE, err |-> e]
                     /\ Shared(sp)
                     /\ UNCHANGED << txDDL, workers >>
                ELSE IF drv = "unknown"
                  THEN /\ result' = [op |-> "NewWorker", worker |-> FALSE, err |-> DriverErr]
                       /\ Shared(sp)
                       /\ UNCHANGED << txDDL, workers >>
                  ELSE /\ result' = [op |-> "NewWorker", worker |-> TRUE, err |-> NilErr]
                       /\ workers' = workers \cup {w}
                       /\ plans' = WorkerPlans(sp)
                       /\ txDDL' = (drv # "mysql")
  /\ UNCHANGED << handles, definitions, errs, workerVars >>

----------------------------------------------------------------------------
\* Specification: one worker on a database whose version table holds rows
\* of any subset of the defined versions, none failed, none locked

InitialTables == {{Row(i, FALSE, FALSE) : i \in S} : S \in SUBSET SchemaIDs}

NoCall == [name |-> "none", id |-> 0]

\* the action a definition was given for a plan of the given kind
ActionOf(kind, h, dir) ==
  CASE kind = "sql" -> Command(sqlOf(h, dir))
    [] kind = "dbFunc" -> DBFunc
    [] OTHER -> TxFunc

\* the state after NewWorker returned the workers ws for a schema that
\* defines the versions ids, each once with one up and one down action, on
\* a database that answers n errors to CreateMigrationsTable
InitOnStore(ids, ws, n) ==
  /\ plans \in [ids -> DefinitionPairs]
  /\ txDDL \in BOOLEAN
  /\ table \in {{Row(i, FALSE, FALSE) : i \in S} : S \in SUBSET ids}
  /\ workers = ws
  /\ pc = [w \in Workers |-> "idle"]
  /\ call = [w \in Workers |-> NoCall]
  /\ err = [w \in Workers |-> NoErr]
  /\ initCalled = [w \in Workers |-> FALSE]
  /\ creates = [w \in Workers |-> 0]
  /\ createErrs = n
  /\ stepID = [w \in Workers |-> 0]
  /\ more = [w \in Workers |-> FALSE]
  /\ tbl0 = [w \in Workers |-> table]
  /\ log = [w \in Workers |-> << >>]
  /\ handles = [h \in 1 .. Cardinality(ids) |->
                  LET id == SortAsc(ids)[h]
                  IN  [id |-> id,
                       upAction |-> ActionOf(plans[id].up, h, "up"), upCount |-> 1,
                       downAction |-> ActionOf(plans[id].down, h, "down"), downCount |-> 1]]
  /\ definitions = [i \in ids |-> CHOOSE h \in 1 .. Cardinality(ids) : SortAsc(ids)[h] = i]
  /\ errs = << >>
  /\ schemaPlans = complete(handles, definitions, NilPlans, SortAsc(ids))
  /\ result = [op |-> "NewWorker", worker |-> TRUE, err |-> NilErr]

\* the same on a database that creates the version table without error
InitOnWorkers(ids, ws) == InitOnStore(ids, ws, 0)

\* the same with worker 1 alone
InitOn(ids) == InitOnWorkers(ids, {1})

Init == InitOn(SchemaIDs) /\ table \in InitialTables

Next ==
  \E w \in Workers :
    \/ Up(w)
    \/ Down(w)
    \/ \E id \in CallIDs : Goto(w, id)
    \/ \E id \in CallIDs : Force(w, id)
    \/ \E id \in CallIDs : Lock(w, id)
    \/ \E id \in CallIDs : Unlock(w, id)
    \/ \E id \in CallIDs : Version(w, id)
    \/ Versions(w)
    \/ upOne(w)
    \/ upOneNoTxInsert(w)
    \/ upOneNoTxExec(w)
    \/ upOneNoTxClear(w)
    \/ downOne(w)
    \/ downOneNoTxMark(w)
    \/ downOneNoTxExec(w)
    \/ downOneNoTxDelete(w)
    \/ gotoOne(w)
    \/ lockHelper(w)
    \/ ForceTx(w)
    \/ VersionTx(w)
    \/ VersionsTx(w)

Spec == Init /\ [][Next]_vars

\* the steps of the loops of Up, Down and Goto
LoopSteps(w) ==
  \/ upOne(w)
  \/ upOneNoTxInsert(w)
  \/ upOneNoTxExec(w)
  \/ upOneNoTxClear(w)
  \/ downOne(w)
  \/ downOneNoTxMark(w)
  \/ downOneNoTxExec(w)
  \/ downOneNoTxDelete(w)
  \/ gotoOne(w)

\* Specification: one worker that calls Up, Down and Goto, on a table that
\* starts with the highest version alone (every table of Spec follows from
\* it). A call that was entered goes on running: the goroutine is scheduled
\* and every database call returns; nothing obliges the caller to make
\* another call.
InitLoop == Init /\ table = {Row(Max(SchemaIDs), FALSE, FALSE)}

NextLoop ==
  \E w \in Workers :
    \/ Up(w)
    \/ Down(w)
    \/ \E id \in CallIDs : Goto(w, id)
    \/ LoopSteps(w)

SpecLoop == InitLoop /\ [][NextLoop]_vars /\ WF_vars(LoopSteps(1))

----------------------------------------------------------------------------
\* Specification: a Schema from its zero value, through calls of Define, of
\* Up, UpAction, Down and DownAction on the Definitions returned, of Err and
\* of NewWorker

InitSchema ==
  /\ handles = << >>
  /\ definitions = << >>
  /\ errs = << >>
  /\ schemaPlans = NilPlans
  /\ result = NoResult
  /\ plans = << >>
  /\ txDDL = TRUE
  /\ table = {}
  /\ workers = {}
  /\ pc = [w \in Workers |-> "idle"]
  /\ call = [w \in Workers |-> NoCall]
  /\ err = [w \in Workers |-> NoErr]
  /\ initCalled = [w \in Workers |-> FALSE]
  /\ creates = [w \in Workers |-> 0]
  /\ createErrs = 0
  /\ stepID = [w \in Workers |-> 0]
  /\ more = [w \in Workers |-> FALSE]
  /\ tbl0 = [w \in Workers |-> table]
  /\ log = [w \in Workers |-> << >>]

NextSchema ==
  \/ \E id \in DefineIDs : Define(id)
  \/ \E h \in 1 .. MaxDefine : DefinitionUp(h)
  \/ \E h \in 1 .. MaxDefine : DefinitionDown(h)
  \/ \E h \in 1 .. MaxDefine, a \in Actions : UpAction(h, a)
  \/ \E h \in 1 .. MaxDefine, a \in Actions : DownAction(h, a)
  \/ Err
  \/ NewWorker(1)

SpecSchema == InitSchema /\ [][NextSchema]_vars

----------------------------------------------------------------------------
\* Specification: one worker on a schema whose lowest version id is 0

LowSchemaIDs == {2 * i - 2 : i \in 1 .. NumPlans}

InitLow == InitOn(LowSchemaIDs)

SpecLow == InitLow /\ [][Next]_vars

----------------------------------------------------------------------------
\* Specification: Err and NewWorker on a Schema of ChainLen versions, each
\* defined once with one up and one down action, where an action may replay
\* any of the versions

\* number of versions of the schema
ChainLen == 3

ChainIDs == 1 .. ChainLen

\* the up and the down actions a version of the schema may have been given
ChainUps(h) == {Command(sqlOf(h, "up")), DBFunc, TxFunc} \cup {Replay(t) : t \in ChainIDs}

ChainDowns(h) == {Command(sqlOf(h, "down"))} \cup {Replay(t) : t \in ChainIDs}

InitChain ==
  /\ \E ups \in [ChainIDs -> UNION {ChainUps(h) : h \in ChainIDs}],
        downs \in [ChainIDs -> UNION {ChainDowns(h) : h \in ChainIDs}] :
       /\ \A h \in ChainIDs : ups[h] \in ChainUps(h) /\ downs[h] \in ChainDowns(h)
       /\ handles = [h \in ChainIDs |->
                       [id |-> h, upAction |-> ups[h], upCount |-> 1,
                        downAction |-> downs[h], downCount |-> 1]]
  /\ definitions = [i \in ChainIDs |-> i]
  /\ errs = << >>
  /\ schemaPlans = NilPlans
  /\ result = NoResult
  /\ plans = << >>
  /\ txDDL = TRUE
  /\ table = {}
  /\ workers = {}
  /\ pc = [w \in Workers |-> "idle"]
  /\ call = [w \in Workers |-> NoCall]
  /\ err = [w \in Workers |-> NoErr]
  /\ initCalled = [w \in Workers |-> FALSE]
  /\ creates = [w \in Workers |-> 0]
  /\ createErrs = 0
  /\ stepID = [w \in Workers |-> 0]
  /\ more = [w \in Workers |-> FALSE]
  /\ tbl0 = [w \in Workers |-> table]
  /\ log = [w \in Workers |-> << >>]

NextChain ==
  \/ Err
  \/ NewWorker(1)

SpecChain == InitChain /\ [][NextChain]_vars

----------------------------------------------------------------------------
\* Specification: two workers of one schema on one database, each making
\* one call of Up, Down or Goto that performs at most RaceSteps steps

RaceSteps == 2

InitRace == InitOnWorkers(SchemaIDs, Workers)

\* w has not called yet
CallAllowed(w) == call[w] = NoCall

\* the call of w may start one more step
StepAllowed(w) == Len(log[w]) < RaceSteps

NextRace ==
  \E w \in Workers :
    \/ CallAllowed(w) /\ Up(w)
    \/ CallAllowed(w) /\ Down(w)
    \/ \E id \in CallIDs : CallAllowed(w) /\ Goto(w, id)
    \/ StepAllowed(w) /\ upOne(w)
    \/ upOneNoTxInsert(w)
    \/ upOneNoTxExec(w)
    \/ upOneNoTxClear(w)
    \/ StepAllowed(w) /\ downOne(w)
    \/ downOneNoTxMark(w)
    \/ downOneNoTxExec(w)
    \/ downOneNoTxDelete(w)
    \/ StepAllowed(w) /\ gotoOne(w)

SpecRace == InitRace /\ [][NextRace]_vars

----------------------------------------------------------------------------
\* Specification: the workers of one schema on one database, each calling Up
\* once, their transactions and actions interleaved

NextUpRace ==
  \E w \in Workers :
    \/ CallAllowed(w) /\ Up(w)
    \/ upOne(w)
    \/ upOneNoTxInsert(w)
    \/ upOneNoTxExec(w)
    \/ upOneNoTxClear(w)

SpecUpRace == InitRace /\ [][NextUpRace]_vars

----------------------------------------------------------------------------
\* Specification: one worker on a database that answers up to MaxCreateErrs
\* errors to CreateMigrationsTable

MaxCreateErrs == 1

InitCreate == InitOnStore(SchemaIDs, {1}, MaxCreateErrs)

SpecCreate == InitCreate /\ [][Next]_vars

----------------------------------------------------------------------------
\* Specification: one worker of a schema with one version, and calls of
\* Define and Err on that schema between the operations of the worker

LateIDs == {Min(SchemaIDs)}

InitLate == InitOn(LateIDs)

\* no operation of a worker is running
AllIdle == \A w \in Workers : pc[w] = "idle"

NextLate ==
  \/ Next
  \/ \E id \in DefineIDs : AllIdle /\ Define(id)
  \/ AllIdle /\ Err

SpecLate == InitLate /\ [][NextLate]_vars

----------------------------------------------------------------------------
\* Specification: one worker on a database whose version table is empty

InitEmpty == InitOn(SchemaIDs) /\ table = {}

SpecEmpty == InitEmpty /\ [][Next]_vars

----------------------------------------------------------------------------
\* Vocabulary of the properties

\* worker w has returned from the operation name
Returned(w, name) == w \in workers /\ pc[w] = "idle" /\ call[w].name = name

NoFailed(tbl) == \A r \in tbl : ~r.failed

\* ids of the plans that have a row
AppliedIDs(tbl) == RowIDs(tbl) \cap DOMAIN plans

LockedIDs(tbl) == {r.id : r \in {x \in tbl : x.locked}} \cap DOMAIN plans

\* no migration action and no write of the version table returned an error
Succeeded(w) == err[w].kind \notin {"action", "store"}

\* the table after the steps of evs that were completed, in order
RECURSIVE TableAfter(_, _)
TableAfter(tbl, evs) ==
  IF evs = << >>
    THEN tbl
    ELSE LET e == Head(evs)
             next == IF ~e.done THEN tbl
                     ELSE IF e.dir = "up" THEN tbl \cup {Row(e.id, FALSE, FALSE)}
                     ELSE {r \in tbl : r.id # e.id}
         IN  TableAfter(next, Tail(evs))

Last(s) == s[Len(s)]

Front(s) == SubSeq(s, 1, Len(s) - 1)

IDsOf(evs) == [k \in 1 .. Len(evs) |-> evs[k].id]

----------------------------------------------------------------------------
\* C1: a step never removes the row of a version that is locked and never
\* runs the down action of a locked version; a locked row loses its flag
\* only in the transaction of an Unlock of that version.
C1_LockedNeverRolledBack ==
  [][ /\ \A r \in table :
           r.locked =>
             \E r2 \in table' :
               /\ r2.id = r.id
               /\ r2.locked \/ \E w \in workers :
                                  /\ pc[w] = "lockHelper"
                                  /\ call[w] = [name |-> "Unlock", id |-> r.id]
      /\ \A w \in workers :
           Len(log'[w]) > Len(log[w]) /\ Last(log'[w]).dir = "down" =>
             Last(log'[w]).id \notin LockedIDs(table) ]_vars

\* a Down, Goto or Force returned having removed rows while a version that
\* was locked when it was called is still there, locked
C1_Witness ==
  /\ pc[1] = "idle"
  /\ call[1].name \in {"Down", "Goto", "Force"}
  /\ RowIDs(table) # RowIDs(tbl0[1])
  /\ \E r \in table : r.locked /\ r \in tbl0[1]
  /\ \E r \in tbl0[1] : r.id \notin RowIDs(table)

\* C2: an Up called on a table without failed row, in which no action and no
\* write failed, returns no error; it ran the up actions of exactly the
\* plans that had no row, lowest id first, and every plan then has a row
\* that is not failed, the rows that were there being unchanged.
C2_UpAppliesAllAscending ==
  \A w \in workers :
    Returned(w, "Up") /\ NoFailed(tbl0[w]) /\ Succeeded(w) =>
      /\ err[w] = NoErr
      /\ IDsOf(log[w]) = SortAsc((DOMAIN plans) \ RowIDs(tbl0[w]))
      /\ \A k \in 1 .. Len(log[w]) : log[w][k].dir = "up" /\ log[w][k].ok
      /\ table = tbl0[w] \cup {Row(p, FALSE, FALSE) : p \in (DOMAIN plans) \ RowIDs(tbl0[w])}
      /\ table = TableAfter(tbl0[w], log[w])

\* Up returned without error from the empty table, having applied every plan
C2_Witness ==
  /\ Returned(1, "Up")
  /\ tbl0[1] = {}
  /\ err[1] = NoErr
  /\ Len(log[1]) = NumPlans
  /\ RowIDs(table) = SchemaIDs

\* C3: a Goto to a defined target, called on a table without failed row and
\* without locked applied version above the target, in which no action and
\* no write failed, returns no error and leaves exactly the plans at or
\* below the target applied.
C3_GotoConverges ==
  \A w \in workers :
    ( /\ Returned(w, "Goto")
      /\ call[w].id \in DOMAIN plans
      /\ NoFailed(tbl0[w])
      /\ \A v \in LockedIDs(tbl0[w]) : v <= call[w].id
      /\ Succeeded(w) ) =>
      /\ err[w] = NoErr
      /\ AppliedIDs(table) = {p \in DOMAIN plans : p <= call[w].id}
      /\ NoFailed(table)

\* a Goto returned without error after a down step followed by an up step
C3_Witness ==
  /\ Returned(1, "Goto")
  /\ call[1].id \in DOMAIN plans
  /\ err[1] = NoErr
  /\ Len(log[1]) >= 2
  /\ log[1][1].dir = "down"
  /\ Last(log[1]).dir = "up"
  /\ AppliedIDs(table) = {p \in DOMAIN plans : p <= call[1].id}

\* C4 as stated: whenever V is applied and locked, a Goto below V fails with
\* the locked-version error naming V, runs no action and changes no row.
C4_Original ==
  \A w \in workers : \A V \in DOMAIN plans :
    ( /\ Returned(w, "Goto")
      /\ err[w].kind # "invalid"
      /\ V \in LockedIDs(tbl0[w])
      /\ call[w].id < V ) =>
      /\ err[w] = Error("locked", V)
      /\ log[w] = << >>
      /\ table = tbl0[w]

\* the locked applied versions above the target of the Goto of w
Blocking(w) == {v \in LockedIDs(tbl0[w]) : v > call[w].id}

\* C4, amended: on a table without failed row, a Goto below a locked applied
\* version fails with the locked-version error naming the highest locked
\* applied version above the target, runs no action and changes no row; a
\* successful Unlock clears the flag of its version only; and a Goto with no
\* locked applied version above its target, in which no action and no write
\* failed, returns no error with exactly the plans up to the target applied.
C4_LockBlocksGoto ==
  \A w \in workers :
    /\ ( Returned(w, "Goto") /\ err[w].kind # "invalid" /\ NoFailed(tbl0[w])
         /\ Blocking(w) # {} ) =>
         /\ err[w] = Error("locked", Max(Blocking(w)))
         /\ log[w] = << >>
         /\ table = tbl0[w]
    /\ Returned(w, "Unlock") /\ err[w] = NoErr =>
         /\ call[w].id \notin LockedIDs(table)
         /\ table = {IF r.id = call[w].id THEN [r EXCEPT !.locked = FALSE] ELSE r : r \in tbl0[w]}
    /\ ( Returned(w, "Goto") /\ err[w].kind # "invalid" /\ NoFailed(tbl0[w])
         /\ Blocking(w) = {} /\ Succeeded(w) ) =>
         /\ err[w] = NoErr
         /\ AppliedIDs(table) = {p \in DOMAIN plans : p <= call[w].id}

\* a Goto was refused below two locked versions, naming the higher one
C4_Witness ==
  /\ Returned(1, "Goto")
  /\ Cardinality(Blocking(1)) >= 2
  /\ err[1] = Error("locked", Max(Blocking(1)))
  /\ err[1].id # Min(Blocking(1))

\* C5: a Down called on a table without failed row, in which no action and
\* no write failed, returns no error; it ran the down actions of the applied
\* plans above the highest locked applied version, highest id first (of all
\* applied plans when none is locked), removed their rows and left every
\* other row as it was.
C5_DownStopsAtLock ==
  \A w \in workers :
    Returned(w, "Down") /\ NoFailed(tbl0[w]) /\ Succeeded(w) =>
      LET L == LockedIDs(tbl0[w])
          gone == IF L = {} THEN AppliedIDs(tbl0[w])
                  ELSE {p \in AppliedIDs(tbl0[w]) : p > Max(L)}
      IN  /\ err[w] = NoErr
          /\ IDsOf(log[w]) = SortDesc(gone)
          /\ \A k \in 1 .. Len(log[w]) : log[w][k].dir = "down" /\ log[w][k].ok
          /\ table = {r \in tbl0[w] : r.id \notin gone}
          /\ L = {} => AppliedIDs(table) = {}

\* a Down returned without error, having reversed a version above a locked one
C5_Witness ==
  /\ Returned(1, "Down")
  /\ err[1] = NoErr
  /\ LockedIDs(tbl0[1]) # {}
  /\ Len(log[1]) >= 1
  /\ LockedIDs(table) = LockedIDs(tbl0[1])
  /\ RowIDs(table) # RowIDs(tbl0[1])

\* the operation of w ended on an up action run outside a transaction that
\* returned an error
UpFailedNoTx(w) ==
  /\ w \in workers
  /\ pc[w] = "idle"
  /\ log[w] # << >>
  /\ Last(log[w]) = Event("up", Last(log[w]).id, FALSE, FALSE, FALSE)

\* C6: when an up action run outside a transaction returns an error, the
\* operation returns that error, the row of the version is in the table with
\* failed=true and not locked, and the rest of the table is as the steps
\* completed before left it: no other row was added, removed or changed.
C6_FailedNoTxUpLeavesMarker ==
  \A w \in workers :
    UpFailedNoTx(w) =>
      LET id == Last(log[w]).id
      IN  /\ err[w] = Error("action", id)
          /\ Row(id, TRUE, FALSE) \in table
          /\ id \notin RowIDs(TableAfter(tbl0[w], Front(log[w])))
          /\ table = TableAfter(tbl0[w], Front(log[w])) \cup {Row(id, TRUE, FALSE)}

\* an Up applied one version and then failed in the action of the next one,
\* which ran outside a transaction
C6_Witness ==
  /\ UpFailedNoTx(1)
  /\ call[1].name = "Up"
  /\ Len(log[1]) = 2
  /\ \E r \in table : r.failed

\* the operations that read the summary through getVersionSummary
Gated == {"Up", "Down", "Goto", "Lock", "Unlock"}

\* C7: an Up, Down, Goto, Lock or Unlock called while some row is marked
\* failed runs no migration action and changes no row, and, its id having
\* passed the defined-version check, returns the "previously failed" error.
C7_FailedStateGate ==
  \A w \in workers :
    call[w].name \in Gated /\ ~NoFailed(tbl0[w]) =>
      /\ log[w] = << >>
      /\ table = tbl0[w]
      /\ pc[w] = "idle" /\ err[w].kind # "invalid" => err[w] = Error("failed", 0)

\* a Goto to a defined version was refused because a row is marked failed
C7_Witness ==
  /\ Returned(1, "Goto")
  /\ call[1].id \in DOMAIN plans
  /\ ~NoFailed(tbl0[1])
  /\ err[1] = Error("failed", 0)

\* C8: a Force that returns no error, called with an id at or above a version
\* marked failed, leaves no row marked failed and keeps the row of that
\* version, cleared; and an operation is refused with "previously failed"
\* only if a row was marked failed when it was called.
C8_ForceRecovers ==
  \A w \in workers :
    /\ Returned(w, "Force") /\ err[w] = NoErr =>
         \A f \in tbl0[w] :
           f.failed /\ call[w].id >= f.id =>
             /\ NoFailed(table)
             /\ [f EXCEPT !.failed = FALSE] \in table
    /\ pc[w] = "idle" /\ err[w] = Error("failed", 0) =>
         call[w].name \in Gated /\ ~NoFailed(tbl0[w])

\* a Force to the failed version returned no error
C8_Witness ==
  /\ Returned(1, "Force")
  /\ err[1] = NoErr
  /\ \E f \in tbl0[1] : f.failed /\ call[1].id = f.id
  /\ NoFailed(table)

\* C9 as stated: while the down action of a step runs outside a transaction
\* the row of the version is there with failed=true, and it stays so when
\* the action returns an error.
C9_Original ==
  \A w \in workers :
    /\ pc[w] = "downOneNoTxExec" =>
         \E r \in table : r.id = stepID[w] /\ r.failed
    /\ ( pc[w] = "idle" /\ log[w] # << >>
         /\ Last(log[w]) = Event("down", Last(log[w]).id, FALSE, FALSE, FALSE) ) =>
         \E r \in table : r.id = Last(log[w]).id /\ r.failed

\* C10: a step whose action ran in the step's transaction and that failed,
\* in the action or in the write of the version row, is the last step of
\* its operation; the operation returns the error of that step, and the
\* table is as the steps committed before left it.
C10_FailedTxStepRollsBack ==
  \A w \in workers :
    \A k \in 1 .. Len(log[w]) :
      log[w][k].tx /\ ~log[w][k].done =>
        /\ k = Len(log[w])
        /\ pc[w] = "idle"
        /\ err[w] = Error(IF log[w][k].ok THEN "store" ELSE "action", log[w][k].id)
        /\ table = TableAfter(tbl0[w], Front(log[w]))

\* an operation committed one step and failed in the transaction of the next
C10_Witness ==
  /\ pc[1] = "idle"
  /\ Len(log[1]) = 2
  /\ log[1][1].done
  /\ log[1][2].tx
  /\ ~log[1][2].ok
  /\ table # tbl0[1]

----------------------------------------------------------------------------
\* the table Goto(id) aims at: the plans at or below id applied, no other
\* plan applied, no row marked failed
Converged(tbl, id) ==
  /\ NoFailed(tbl)
  /\ AppliedIDs(tbl) = {p \in DOMAIN plans : p <= id}

\* the step in which worker w, whose last call Goto(id) returned without
\* error, calls Goto(id) again
GotoAgain(w) ==
  /\ Returned(w, "Goto")
  /\ err[w] = NoErr
  /\ pc'[w] = "gotoOne"
  /\ call'[w] = call[w]

\* C11: when Goto(id) has returned without error and is called again, the
\* table it is called on is the one Goto(id) aims at, and a Goto that starts
\* on that table returns in its first step without error, having run no
\* action and changed no row.
C11_GotoIdempotent ==
  [][ \A w \in workers :
        /\ GotoAgain(w) => Converged(table', call[w].id)
        /\ ( pc[w] = "gotoOne" /\ log[w] = << >> /\ Converged(table, call[w].id) ) =>
             /\ pc'[w] = "idle"
             /\ err'[w] = NoErr
             /\ log'[w] = << >>
             /\ table' = table ]_vars

\* a Goto to a defined version returned without error, without a step, on
\* a table with rows that a Goto to that version leaves
C11_Witness ==
  /\ Returned(1, "Goto")
  /\ err[1] = NoErr
  /\ call[1].id \in DOMAIN plans
  /\ initCalled[1]
  /\ log[1] = << >>
  /\ tbl0[1] # {}
  /\ Converged(tbl0[1], call[1].id)
  /\ table = tbl0[1]

----------------------------------------------------------------------------
\* C13: when Force(id) has returned without error, the table has no row
\* above id; for id other than 0 the row of id is there, not marked failed;
\* for id 0 the table is empty; and no migration action was run.
C13_ForcePostState ==
  \A w \in workers :
    ( Returned(w, "Force") /\ err[w] = NoErr ) =>
      /\ \A r \in table : r.id <= call[w].id
      /\ call[w].id # 0 => \E r \in table : r.id = call[w].id /\ ~r.failed
      /\ call[w].id = 0 => table = {}
      /\ log[w] = << >>

\* Force to a version below an applied one returned without error and
\* cleared the failure of its target
C13_Witness ==
  /\ Returned(1, "Force")
  /\ err[1] = NoErr
  /\ \E r \in tbl0[1] : r.id > call[1].id
  /\ \E r \in tbl0[1] : r.id = call[1].id /\ r.failed

\* C14: Force(id) with id other than 0 and no row of id in the table fails
\* and leaves the table as it was; Force(0) is never refused for its target.
C14_ForceNeedsAppliedTarget ==
  \A w \in workers :
    Returned(w, "Force") =>
      /\ ( call[w].id # 0 /\ call[w].id \notin RowIDs(tbl0[w]) ) =>
           /\ err[w].kind \in {"invalid", "unapplied", "locked"}
           /\ table = tbl0[w]
           /\ log[w] = << >>
      /\ call[w].id = 0 => err[w].kind \notin {"invalid", "unapplied"}

\* Force to a defined version without a row, below an applied version that
\* is not locked, was refused
C14_Witness ==
  /\ Returned(1, "Force")
  /\ call[1].id \in DOMAIN plans
  /\ call[1].id \notin RowIDs(tbl0[1])
  /\ \E r \in tbl0[1] : r.id > call[1].id
  /\ LockedIDs(tbl0[1]) = {}
  /\ err[1] = Error("unapplied", call[1].id)

\* C15: Force(id), with id 0 or a defined version, called while an applied
\* version above id is locked fails with the locked-version error of such a
\* version and leaves the table as it was.
C15_ForceRespectsLocks ==
  \A w \in workers :
    ( Returned(w, "Force") /\ err[w].kind # "invalid" /\ Blocking(w) # {} ) =>
      /\ err[w].kind = "locked"
      /\ err[w].id \in Blocking(w)
      /\ table = tbl0[w]

\* Force was refused for a locked version that is not the highest applied
\* one, on a table with a failed row
C15_Witness ==
  /\ Returned(1, "Force")
  /\ err[1].kind = "locked"
  /\ \E r \in tbl0[1] : r.id > err[1].id /\ ~r.locked
  /\ ~NoFailed(tbl0[1])

\* C16: Lock(id) and Unlock(id) on an applied version, when no row is marked
\* failed and the update is not refused by the database, leave the table as
\* it was but for the locked flag of the row of id, which is set by Lock and
\* cleared by Unlock; in every case no other row, no id, no failed flag and
\* no applied time changes; on a defined version without a row they fail
\* and change nothing.
C16_LockChangesOnlyFlag ==
  \A w \in workers :
    ( Returned(w, "Lock") \/ Returned(w, "Unlock") ) =>
      LET id == call[w].id
      IN  /\ log[w] = << >>
          /\ RowIDs(table) = RowIDs(tbl0[w])
          /\ \A r \in tbl0[w] :
               IF r.id = id /\ err[w] = NoErr
                 THEN [r EXCEPT !.locked = (call[w].name = "Lock")] \in table
                 ELSE r \in table
          /\ ( id \in RowIDs(tbl0[w]) /\ NoFailed(tbl0[w]) ) =>
               err[w].kind \in {"none", "store"}
          /\ ( id \in DOMAIN plans /\ id \notin RowIDs(tbl0[w]) ) =>
               /\ err[w].kind \in {"unapplied", "failed"}
               /\ table = tbl0[w]

\* Unlock cleared the lock of one of two locked versions
C16_Witness ==
  /\ Returned(1, "Unlock")
  /\ err[1] = NoErr
  /\ Cardinality(LockedIDs(tbl0[1])) = 2
  /\ Cardinality(LockedIDs(table)) = 1

\* the operations that take a version id and check it against the schema
TakesID == {"Goto", "Lock", "Unlock", "Version", "Force"}

\* C17: Goto, Lock, Unlock, Version and Force called with an id other than
\* 0 that has no definition return the invalid-version error of that id,
\* having run no step and not touched the database, whatever the table.
C17_UndefinedIDRejected ==
  \A w \in workers :
    ( pc[w] = "idle" /\ call[w].name \in TakesID
      /\ call[w].id # 0 /\ call[w].id \notin DOMAIN plans ) =>
      /\ err[w] = Error("invalid", call[w].id)
      /\ log[w] = << >>
      /\ table = tbl0[w]

\* Force with an undefined id was rejected on a table with a failed row
C17_Witness ==
  /\ Returned(1, "Force")
  /\ call[1].id \notin DOMAIN plans
  /\ call[1].id # 0
  /\ err[1].kind = "invalid"
  /\ ~NoFailed(table)

\* C18: Version(id) for a defined id and Versions() return without error
\* and leave the table as it was, whatever the table, a failed row included.
C18_VersionReadOnly ==
  \A w \in workers :
    /\ ( Returned(w, "Version") /\ call[w].id \in DOMAIN plans ) =>
         err[w] = NoErr /\ table = tbl0[w] /\ log[w] = << >>
    /\ Returned(w, "Versions") =>
         err[w] = NoErr /\ table = tbl0[w] /\ log[w] = << >>

\* Version returned for a defined version without a row, on a table with a
\* failed row
C18_Witness ==
  /\ Returned(1, "Version")
  /\ err[1] = NoErr
  /\ call[1].id \notin RowIDs(table)
  /\ ~NoFailed(table)

----------------------------------------------------------------------------
\* C12 as stated: for every schema NewWorker accepts, Goto(0) is not refused
\* as an undefined version, runs down steps only and, when it returns
\* without error, leaves no plan applied.
C12_Original ==
  \A w \in workers :
    ( Returned(w, "Goto") /\ call[w].id = 0 ) =>
      /\ err[w].kind # "invalid"
      /\ \A k \in 1 .. Len(log[w]) : log[w][k].dir = "down"
      /\ err[w] = NoErr => AppliedIDs(table) = {}

\* what Err reports in the current state of the Schema, its plans compiled
ErrNow == ErrValue(errs, schemaPlans.list)

\* C19: NewWorker returns no worker and the error value of Err whenever Err
\* reports one, and it returns a worker only when Err reports nil.
C19_NoWorkerOnSchemaError ==
  result.op = "NewWorker" =>
    /\ ~schemaPlans.nil
    /\ ErrNow # NilErr => ~result.worker /\ result.err = ErrNow
    /\ result.worker => ErrNow = NilErr /\ result.err = NilErr /\ workers # {}

\* NewWorker was refused for a schema in which a version was defined twice
C19_Witness ==
  /\ result.op = "NewWorker"
  /\ ~result.worker
  /\ workers = {}
  /\ Len(handles) = 2
  /\ handles[1].id = handles[2].id
  /\ result.err.kind = "Errors"
  /\ result.err.list[1] = DefinitionError(handles[1].id, "defined more than once", 0)

\* the ids of a plan list are in ascending order
Ascending(list) == \A i, j \in 1 .. Len(list) : i < j => list[i].id < list[j].id

\* C20: a compilation yields, whatever the order in which the definitions
\* are met, one plan list, in ascending order of id, and with it one list
\* of errors; and Err called again right after Err compiles nothing and
\* reports the same plans and the same errors.
C20_CompilationDeterministic ==
  [][ /\ ( schemaPlans.nil /\ ~schemaPlans'.nil ) =>
           /\ Ascending(schemaPlans'.list)
           /\ \A order \in Orders(definitions) :
                LET list == completeLoop(handles, definitions, sortIDs(order), 1, << >>)
                IN  /\ schemaPlans'.list = list
                    /\ result'.op = "Err" => result'.err = ErrValue(errs, list)
      /\ ( result.op = "Err" /\ result'.op = "Err" ) =>
           result' = result /\ schemaPlans' = schemaPlans ]_vars

\* Err compiled two definitions, the up action of the higher one being a
\* replay of the lower one, resolved to its command
C20_Witness ==
  /\ result.op = "Err"
  /\ Len(schemaPlans.list) = 2
  /\ handles[definitions[schemaPlans.list[2].id]].upAction.kind = "Replay"
  /\ schemaPlans.list[2].up = schemaPlans.list[1].up
  /\ schemaPlans.list[1].up.sql # ""

----------------------------------------------------------------------------
\* the Definition registered for the version id
Def(id) == handles[definitions[id]]

\* the actions last set on the Definition registered for id, up then down
ActionsOf(id) == << Def(id).upAction, Def(id).downAction >>

\* Schema.plans holds what a compilation of the definitions as they are yields
FreshPlans ==
  /\ ~schemaPlans.nil
  /\ schemaPlans.list =
       completeLoop(handles, definitions, sortIDs(SortAsc(DOMAIN definitions)), 1, << >>)

\* Err has just compiled the definitions as they are and reported
Validated == result.op = "Err" /\ FreshPlans

\* how many times e occurs in the list
Occurrences(list, e) == Cardinality({k \in 1 .. Len(list) : list[k] = e})

\* C21: when Err validates a schema in which the up or the down action of
\* version N is a replay of a version at or above N, it reports the error
\* "N: replay must specify an earlier version", once for each such action.
C21_ReplayMustPointBack ==
  Validated =>
    \A N \in DOMAIN definitions :
      LET bad == {k \in 1 .. 2 : ActionsOf(N)[k].kind = "Replay" /\ ActionsOf(N)[k].id >= N}
      IN  bad # {} =>
            Occurrences(result.err.list,
                        DefinitionError(N, "replay must specify an earlier version", 0))
              = Cardinality(bad)

\* Err validated a schema in which a version replays itself going up and a
\* higher version going down
C21_Witness ==
  /\ Validated
  /\ \E N \in DOMAIN definitions :
       /\ Def(N).upAction = Replay(N)
       /\ Def(N).downAction.kind = "Replay"
       /\ Def(N).downAction.id > N
       /\ Occurrences(result.err.list,
                      DefinitionError(N, "replay must specify an earlier version", 0)) = 2

\* C22 as stated: when Err validates a schema in which the up or the down
\* action of version N is a replay of a version without a definition, it
\* reports "N: replay refers to unknown version <target>".
C22_Original ==
  Validated =>
    \A N \in DOMAIN definitions :
      \A k \in 1 .. 2 :
        ( ActionsOf(N)[k].kind = "Replay" /\ ActionsOf(N)[k].id \notin DOMAIN definitions ) =>
          Occurrences(result.err.list,
                      DefinitionError(N, "replay refers to unknown version %d",
                                      ActionsOf(N)[k].id)) > 0

\* C22: when Err validates a schema in which the up or the down action of
\* version N is a replay of a version below N without a definition, it
\* reports "N: replay refers to unknown version <target>", once for each
\* such action; a replay of an undefined version at or above N is reported
\* as "replay must specify an earlier version" and not as unknown.
C22_ReplayOfUnknownBelow ==
  Validated =>
    \A N \in DOMAIN definitions :
      \A t \in DefineIDs \ DOMAIN definitions :
        LET hit == {k \in 1 .. 2 : ActionsOf(N)[k] = Replay(t)}
            unknown == Occurrences(result.err.list,
                         DefinitionError(N, "replay refers to unknown version %d", t))
        IN  /\ t < N => unknown = Cardinality(hit)
            /\ t >= N => unknown = 0

\* Err validated a schema whose one version replays an undefined lower one
C22_Witness ==
  /\ Validated
  /\ \E N \in DOMAIN definitions :
       /\ Def(N).upAction.kind = "Replay"
       /\ Def(N).upAction.id < N
       /\ Def(N).upAction.id \notin DOMAIN definitions
       /\ Occurrences(result.err.list,
                      DefinitionError(N, "replay refers to unknown version %d",
                                      Def(N).upAction.id)) = 1

\* the plan compiled for the version id
PlanOf(id) == schemaPlans.list[CHOOSE j \in 1 .. Len(schemaPlans.list) : schemaPlans.list[j].id = id]

\* the up and the down action of the plan compiled for id
PlanActions(id) == << PlanOf(id).up, PlanOf(id).down >>

\* the action at the end of the chain of replays that starts with act
RECURSIVE Origin(_)
Origin(act) == IF act.kind = "Replay" THEN Origin(Def(act.id).upAction) ELSE act

\* C23: when Err has validated the schema and returned nil, no up or down
\* action of a compiled plan is still a replay reference, and an action
\* that was defined as a replay of version T is, in the plan, the resolved
\* up action of the plan of T, which is the non-replay up action at the end
\* of the chain of replays.
C23_ReplayResolved ==
  ( Validated /\ result.err = NilErr ) =>
    \A N \in DOMAIN definitions :
      \A k \in 1 .. 2 :
        /\ PlanActions(N)[k].replayUp = {}
        /\ ActionsOf(N)[k].kind = "Replay" =>
             /\ ActionsOf(N)[k].id \in DOMAIN definitions
             /\ PlanActions(N)[k] = PlanOf(ActionsOf(N)[k].id).up
             /\ PlanActions(N)[k] = Apply(Origin(ActionsOf(N)[k]), ZeroAction)

\* Err returned nil for a schema where the up of 3 replays 2, the up of 2
\* replays 1, and the down of 3 replays 2: the plan of 3 holds, up and
\* down, the up command of version 1
C23_Witness ==
  /\ Validated
  /\ result.err = NilErr
  /\ Def(3).upAction = Replay(2)
  /\ Def(2).upAction = Replay(1)
  /\ Def(3).downAction = Replay(2)
  /\ Def(1).upAction.kind = "Command"
  /\ Def(2).downAction.kind = "Command"
  /\ PlanOf(3).up = Apply(Def(1).upAction, ZeroAction)
  /\ PlanOf(3).down = Apply(Def(1).upAction, ZeroAction)

\* the Definitions that Define returned for id, in the order of the calls
HandlesOf(id) == {h \in 1 .. Len(handles) : handles[h].id = id}

\* the ids Define was called with
DefinedIDs == {handles[h].id : h \in 1 .. Len(handles)}

\* C24: each Define of an id that is already registered adds one "defined
\* more than once" error for that id and nothing else to the errors of the
\* schema; the Definition registered under the id stays the one the first
\* Define returned, so a compiled plan takes its action counts and its
\* non-replay actions from that one; and every Err or NewWorker after a
\* duplicate Define returns an error that holds the duplicate errors.
C24_DuplicateIsError ==
  /\ DOMAIN definitions = DefinedIDs
  /\ \A id \in DefinedIDs :
       /\ Occurrences(errs, DefinitionError(id, "defined more than once", 0))
            = Cardinality(HandlesOf(id)) - 1
       /\ definitions[id] = Min(HandlesOf(id))
  /\ Len(errs) = Len(handles) - Cardinality(DefinedIDs)
  /\ FreshPlans =>
       \A id \in DefinedIDs :
         LET first == handles[Min(HandlesOf(id))]
         IN  /\ SubSeq(PlanOf(id).errs, 1, Len(definitionErrs(first))) = definitionErrs(first)
             /\ first.upAction.kind \notin {"Replay", "nil"} =>
                  PlanOf(id).up = Apply(first.upAction, ZeroAction)
             /\ first.upAction.kind = "nil" => PlanOf(id).up = ZeroAction
             /\ first.downAction.kind = "nil" => PlanOf(id).down = ZeroAction
  /\ ( result.op \in {"Err", "NewWorker"} /\ errs # << >> ) =>
       /\ result.err.kind = "Errors"
       /\ ~result.worker
       /\ SubSeq(result.err.list, 1, Len(errs)) = errs

\* Define was called twice with one id, Up was called on the second
\* Definition only, and Err reports the duplicate and a plan without an up
C24_Witness ==
  /\ Validated
  /\ Len(handles) = 2
  /\ handles[1].id = handles[2].id
  /\ handles[2].upCount = 1
  /\ handles[1].upCount = 0
  /\ PlanOf(handles[1].id).up = ZeroAction
  /\ result.err.list[1] = DefinitionError(handles[1].id, "defined more than once", 0)
  /\ result.err.list[2] = DefinitionError(handles[1].id, "up migration not defined", 0)

\* the ids a replay may name
ReplayTargets == DefineIDs \cup ChainIDs

\* the replay actions of version N whose target is not below N
ReplaysNotBack(N) ==
  {k \in 1 .. 2 : ActionsOf(N)[k].kind = "Replay" /\ ActionsOf(N)[k].id >= N}

\* the replay actions of version N whose target t, below N, is not defined
ReplaysUnknown(N, t) ==
  {k \in 1 .. 2 : ActionsOf(N)[k] = Replay(t) /\ t < N /\ t \notin DOMAIN definitions}

\* no duplicate id, every version with one up and one down, every replay
\* of a defined lower version
CleanSchema ==
  /\ Len(handles) = Cardinality(DOMAIN definitions)
  /\ \A N \in DOMAIN definitions :
       /\ Def(N).upCount = 1
       /\ Def(N).downCount = 1
       /\ ReplaysNotBack(N) = {}
       /\ \A t \in ReplayTargets : ReplaysUnknown(N, t) = {}

\* the errors Err returned after those of Define
VersionErrs == SubSeq(result.err.list, Len(errs) + 1, Len(result.err.list))

\* how many errors Err is to report for version N, counts and replays
ExpectedErrs(N) ==
  (IF Def(N).upCount # 1 THEN 1 ELSE 0) + (IF Def(N).downCount # 1 THEN 1 ELSE 0)
  + Cardinality(ReplaysNotBack(N))
  + Cardinality(UNION {{<< k, t >> : k \in ReplaysUnknown(N, t)} : t \in ReplayTargets})

\* C25: when Err validates the schema it returns nil exactly when no id was
\* defined twice, every registered version had its up and its down set
\* exactly once and every replay names a defined lower version; otherwise
\* it returns the errors of Define first, one per duplicate, and then the
\* errors of the versions in ascending order of id: "not defined" for a
\* direction set 0 times, "defined k times" for one set k > 1 times, and
\* one error for each replay that does not resolve, and no other error.
C25_AllErrorsTogether ==
  Validated =>
    /\ result.err = NilErr <=> CleanSchema
    /\ result.err.kind \in {"nil", "Errors"}
    /\ Len(result.err.list) >= Len(errs)
    /\ SubSeq(result.err.list, 1, Len(errs)) = errs
    /\ Len(errs) = Len(handles) - Cardinality(DOMAIN definitions)
    /\ \A k \in 1 .. Len(errs) : errs[k].description = "defined more than once"
    /\ \A i, j \in 1 .. Len(VersionErrs) :
         i < j => VersionErrs[i].version <= VersionErrs[j].version
    /\ \A k \in 1 .. Len(VersionErrs) : VersionErrs[k].version \in DOMAIN definitions
    /\ \A N \in DOMAIN definitions :
         LET d == Def(N)
             count(e) == Occurrences(VersionErrs, e)
         IN  /\ count(DefinitionError(N, "up migration not defined", 0))
                  = IF d.upCount = 0 THEN 1 ELSE 0
             /\ d.upCount > 1 =>
                  count(DefinitionError(N, "up migration defined %d times", d.upCount)) = 1
             /\ count(DefinitionError(N, "down migration not defined", 0))
                  = IF d.downCount = 0 THEN 1 ELSE 0
             /\ d.downCount > 1 =>
                  count(DefinitionError(N, "down migration defined %d times", d.downCount)) = 1
             /\ count(DefinitionError(N, "replay must specify an earlier version", 0))
                  = Cardinality(ReplaysNotBack(N))
             /\ \A t \in ReplayTargets :
                  count(DefinitionError(N, "replay refers to unknown version %d", t))
                    = Cardinality(ReplaysUnknown(N, t))
             /\ Cardinality({k \in 1 .. Len(VersionErrs) : VersionErrs[k].version = N})
                  = ExpectedErrs(N)

\* Err validated a schema with a duplicate id, a version whose up was set
\* twice and whose down was never set, and reported all three errors
C25_Witness ==
  /\ Validated
  /\ Len(result.err.list) = 3
  /\ Len(errs) = 1
  /\ \E N \in DOMAIN definitions :
       /\ Def(N).upCount = 2
       /\ Def(N).downCount = 0
       /\ VersionErrs = << DefinitionError(N, "up migration defined %d times", 2),
                           DefinitionError(N, "down migration not defined", 0) >>

\* the action of the step d of version id runs outside the transaction
\* that read the summary
TwoPhase(d, id) ==
  LET kind == IF d = "up" THEN plans[id].up ELSE plans[id].down
  IN  kind = "dbFunc" \/ (kind = "sql" /\ ~txDDL)

\* w is about to run the down action of a version whose row is gone
StaleDown(w) == pc[w] = "downOneNoTxExec" /\ stepID[w] \notin RowIDs(table)

\* w ran the action of the step d of version id outside a transaction
RanNoTx(w, d, id) ==
  \E k \in 1 .. Len(log[w]) :
    /\ log[w][k].dir = d
    /\ log[w][k].id = id
    /\ ~log[w][k].tx
    /\ log[w][k].ok

\* C26: two workers on one version table are not serialised. A worker
\* that has read its summary and closed that transaction runs the action
\* and writes the table afterwards, whatever the other worker did in
\* between; this happens for the actions that run outside a transaction,
\* and a worker that is about to run the down action of a version whose
\* row is already gone finds itself there because the other worker ran
\* the same down action.
C26_StaleOnlyOutsideTx ==
  \A w \in workers :
    /\ pc[w] \in {"upOneNoTx", "upOneNoTxExec", "upOneNoTxClear"} =>
         TwoPhase("up", stepID[w])
    /\ pc[w] \in {"downOneNoTx", "downOneNoTxExec", "downOneNoTxDelete"} =>
         TwoPhase("down", stepID[w])
    /\ StaleDown(w) =>
         \E v \in workers \ {w} : RanNoTx(v, "down", stepID[w])

\* both workers, called with the same table, ran the down action of the
\* same version outside a transaction
C26_Witness ==
  /\ tbl0[1] = tbl0[2]
  /\ call[1].name = "Down"
  /\ call[2].name = "Down"
  /\ \E N \in DOMAIN plans :
       /\ RanNoTx(1, "down", N)
       /\ RanNoTx(2, "down", N)
       /\ Len(log[1]) = 1
       /\ Len(log[2]) = 1

\* the kind of action the step e ran
KindRun(e) == IF e.dir = "up" THEN plans[e.id].up ELSE plans[e.id].down

\* C27: for every step a worker has run, up or down alike: a TxFunc ran
\* inside the transaction of the step, whatever the driver; a DBFunc ran
\* outside any transaction, through the two-phase protocol; a command ran
\* inside the transaction of the step exactly when the driver supports
\* transactional DDL.
C27_TxChoice ==
  \A w \in workers :
    \A k \in 1 .. Len(log[w]) :
      LET e == log[w][k]
      IN  /\ KindRun(e) = "txFunc" => e.tx
          /\ KindRun(e) = "dbFunc" => ~e.tx
          /\ KindRun(e) = "sql" => (e.tx <=> txDDL)

\* on a driver without transactional DDL, an Up has run a TxFunc inside
\* its transaction and then a command through the two-phase protocol
C27_Witness ==
  /\ ~txDDL
  /\ Returned(1, "Up")
  /\ Len(log[1]) = 2
  /\ KindRun(log[1][1]) = "txFunc" /\ log[1][1].tx /\ log[1][1].done
  /\ KindRun(log[1][2]) = "sql" /\ ~log[1][2].tx /\ log[1][2].done
  /\ err[1] = NoErr

\* the row of version id is in the table with failed set
FailedRow(id) == \E r \in table : r.id = id /\ r.failed

\* C28: in the two-phase up of version N the action starts only once the
\* row of N is in the table with failed set, and when that insert failed
\* the operation returns without having run the action; the flag is
\* cleared only after the action returned success; so whenever the action
\* has been started and has not succeeded the row of N is there with
\* failed set.
C28_TwoPhaseUpOrder ==
  \A w \in workers :
    /\ pc[w] = "upOneNoTxExec" => FailedRow(stepID[w])
    /\ pc[w] = "upOneNoTxClear" =>
         /\ FailedRow(stepID[w])
         /\ log[w] # << >>
         /\ Last(log[w]) = Event("up", stepID[w], FALSE, TRUE, TRUE)
    /\ \A k \in 1 .. Len(log[w]) :
         LET e == log[w][k]
         IN  ( e.dir = "up" /\ ~e.tx ) =>
               /\ e.id \in RowIDs(table)
               /\ ~e.ok => FailedRow(e.id)
               /\ ~FailedRow(e.id) => e.ok
    /\ ( /\ pc[w] = "idle"
         /\ err[w].kind = "store"
         /\ err[w].id \in DOMAIN plans \ RowIDs(table)
         /\ TwoPhase("up", err[w].id) ) =>
         \A k \in 1 .. Len(log[w]) : ~(log[w][k].dir = "up" /\ log[w][k].id = err[w].id)

\* the action of a two-phase up has started and failed: the operation has
\* returned its error and the row is left with failed set
C28_Witness ==
  /\ pc[1] = "idle"
  /\ call[1].name = "Up"
  /\ err[1].kind = "action"
  /\ log[1] # << >>
  /\ Last(log[1]).dir = "up" /\ ~Last(log[1]).tx /\ ~Last(log[1]).ok
  /\ FailedRow(Last(log[1]).id)
  /\ Last(log[1]).id \notin RowIDs(tbl0[1])

\* the rows that were marked failed when w made its call
FailedAtCall(w) == {r \in tbl0[w] : r.failed}

\* C29: a call of Up, Down, Goto, Lock, Unlock, Version or Versions made
\* while some row is marked failed runs no migration action and leaves the
\* table as it was, failed rows included; when a call was made with a row
\* marked failed and no row is marked failed now, the call is a Force that
\* has returned nil, and it ran no migration action either.
C29_OnlyForceLeavesFailed ==
  \A w \in workers :
    FailedAtCall(w) # {} =>
      /\ call[w].name # "none"
      /\ log[w] = << >>
      /\ call[w].name # "Force" => table = tbl0[w]
      /\ table # tbl0[w] => ( pc[w] = "idle" /\ err[w] = NoErr )
      /\ NoFailed(table) => ( call[w].name = "Force" /\ pc[w] = "idle" /\ err[w] = NoErr )
      /\ ( pc[w] = "idle" /\ err[w] # NoErr ) => FailedAtCall(w) \subseteq table

\* a Down called with the highest applied version marked failed has
\* returned: the row is as it was and its down action was not run
C29_Witness ==
  /\ Returned(1, "Down")
  /\ \E r \in FailedAtCall(1) : \A x \in tbl0[1] : x.id <= r.id
  /\ table = tbl0[1]
  /\ log[1] = << >>
  /\ err[1] = Error("failed", 0)

\* the ids of the steps of direction d that w has run, in order
RECURSIVE StepsOf(_, _)
StepsOf(evs, d) ==
  IF evs = << >>
    THEN << >>
    ELSE IF Head(evs).dir = d
      THEN << Head(evs).id >> \o StepsOf(Tail(evs), d)
      ELSE StepsOf(Tail(evs), d)

IsPrefix(s, t) == Len(s) <= Len(t) /\ s = SubSeq(t, 1, Len(s))

\* C30: within one Goto(target) no down step follows an up step; the down
\* steps take the versions that were applied above the target, from the
\* highest down, one version per step; the up steps take the versions
\* that were unapplied at or below the target, from the lowest up, one
\* version per step, and start only when every version above the target
\* has been reversed; a Goto that returned nil has taken all of them.
C30_GotoStepOrder ==
  \A w \in workers :
    call[w].name = "Goto" =>
      LET target == call[w].id
          had == RowIDs(tbl0[w])
          downs == StepsOf(log[w], "down")
          ups == StepsOf(log[w], "up")
          above == SortDesc({p \in DOMAIN plans : p \in had /\ p > target})
          below == SortAsc({p \in DOMAIN plans : p \notin had /\ p <= target})
      IN  /\ \A i, j \in 1 .. Len(log[w]) :
               i < j => ~(log[w][i].dir = "up" /\ log[w][j].dir = "down")
          /\ IsPrefix(downs, above)
          /\ IsPrefix(ups, below)
          /\ ups # << >> =>
               /\ downs = above
               /\ \A k \in 1 .. Len(log[w]) : log[w][k].dir = "down" => log[w][k].done
          /\ ( pc[w] = "idle" /\ err[w] = NoErr ) =>
               ( downs = above /\ ups = below )

\* Goto(2) on a table holding version 4 alone has reversed 4 and then
\* applied 2
C30_Witness ==
  /\ Returned(1, "Goto")
  /\ call[1].id = 2
  /\ RowIDs(tbl0[1]) = {4}
  /\ Len(log[1]) = 2
  /\ log[1][1].dir = "down" /\ log[1][1].id = 4 /\ log[1][1].done
  /\ log[1][2].dir = "up" /\ log[1][2].id = 2 /\ log[1][2].done
  /\ RowIDs(table) = {2}

\* the applied plans above target whose row is locked
LockedAbove(tbl, target) == {p \in LockedIDs(tbl) : p > target}

\* C31: on the summary of every table reached and for every target,
\* checkLocked returns an error exactly when some applied plan above the
\* target has its row locked, and the error names the highest such plan;
\* locked rows at or below the target make no difference.
C31_CheckLockedHighest ==
  \A target \in CallIDs :
    LET vs == getVersionSummaryAllowFailed(table)
        unlockedBelow == {IF r.id <= target THEN [r EXCEPT !.locked = FALSE] ELSE r : r \in table}
    IN  /\ checkLocked(vs, target) =
             IF LockedAbove(table, target) = {}
               THEN NoErr
               ELSE Error("locked", Max(LockedAbove(table, target)))
        /\ checkLocked(getVersionSummaryAllowFailed(unlockedBelow), target)
             = checkLocked(vs, target)

\* Goto(2) was called with versions 2 and 4 both applied and locked: it was
\* refused with the error naming 4, and Goto(4) would pass the check
C31_Witness ==
  /\ Returned(1, "Goto")
  /\ call[1].id = 2
  /\ LockedIDs(table) = {2, 4}
  /\ NoFailed(table)
  /\ err[1] = Error("locked", 4)
  /\ checkLocked(getVersionSummaryAllowFailed(table), 4) = NoErr

\* C32 as stated: a Force(id) leaves every row below id as it was, changes
\* the failed flag of no version but id, and changes no locked flag and no
\* applied time.
C32_Original ==
  \A w \in workers :
    call[w].name = "Force" =>
      \A r \in tbl0[w] :
        /\ r.id < call[w].id => r \in table
        /\ r.id # call[w].id => \A x \in table : x.id = r.id => x.failed = r.failed
        /\ \A x \in table : x.id = r.id => ( x.locked = r.locked /\ x.appliedAt = r.appliedAt )

\* C32: a Force(id) adds no row, removes only rows above id and only when
\* it returns nil, and changes no locked flag and no applied time; the
\* one field it changes in the rows at or below id is the failed flag,
\* which it clears, when it returns nil, in every such row that is marked
\* failed, the row of id and the rows below it alike; a Force that
\* returns an error leaves the table as it was.
C32_ForceFrame ==
  \A w \in workers :
    call[w].name = "Force" =>
      /\ RowIDs(table) \subseteq RowIDs(tbl0[w])
      /\ \A r \in tbl0[w] :
           /\ r.id <= call[w].id => r.id \in RowIDs(table)
           /\ \A x \in table :
                x.id = r.id =>
                  /\ x.locked = r.locked
                  /\ x.appliedAt = r.appliedAt
                  /\ x.failed => r.failed
                  /\ x.failed # r.failed => ( Returned(w, "Force") /\ err[w] = NoErr )
      /\ ( Returned(w, "Force") /\ err[w] = NoErr ) =>
           /\ NoFailed(table)
           /\ RowIDs(table) = {i \in RowIDs(tbl0[w]) : i <= call[w].id}
      /\ ( Returned(w, "Force") /\ err[w] # NoErr ) => table = tbl0[w]

\* Force(4) on a table where version 2 is marked failed and version 4 is
\* applied returned nil: the flag of 2 is cleared, the rows
\* are otherwise as they were
C32_Witness ==
  /\ Returned(1, "Force")
  /\ call[1].id = 4
  /\ err[1] = NoErr
  /\ RowIDs(tbl0[1]) = {2, 4}
  /\ RowOf(tbl0[1], 2).failed
  /\ table = {Row(2, FALSE, FALSE), RowOf(tbl0[1], 4)}

\* the calls of CreateMigrationsTable by worker 1, the only worker, that
\* returned nil
CreatesDone == creates[1] - (MaxCreateErrs - createErrs)

\* C33 as stated: a worker calls CreateMigrationsTable at most once.
C33_Original == \A w \in workers : creates[w] <= 1

\* C33: CreateMigrationsTable returns nil at most once for a worker, and
\* once it has the worker never calls it again; a call that returned an
\* error ends the operation before any transaction and the next operation
\* calls it again; the worker is in a transaction, or has changed the
\* table or run an action, only after the call that returned nil.
C33_InitOnceDone ==
  /\ CreatesDone \in {0, 1}
  /\ initCalled[1] <=> CreatesDone = 1
  /\ creates[1] <= MaxCreateErrs + 1
  /\ initCalled[1] => creates[1] = (MaxCreateErrs - createErrs) + 1
  /\ ~initCalled[1] =>
       /\ pc[1] = "idle"
       /\ log[1] = << >>
       /\ table = tbl0[1]
       /\ err[1].kind \in {"none", "invalid", "init"}
  /\ err[1].kind = "init" => ( pc[1] = "idle" /\ table = tbl0[1] /\ log[1] = << >> )

\* CreateMigrationsTable failed in a first Up, was called again by the
\* next Up and returned nil, and that Up has applied a version
C33_Witness ==
  /\ creates[1] = 2
  /\ initCalled[1]
  /\ call[1].name = "Up"
  /\ Returned(1, "Up")
  /\ err[1] = NoErr
  /\ log[1] # << >>
  /\ table # tbl0[1]

\* rows of versions that the schema does not define
StrayRows == {Row(i, FALSE, TRUE) : i \in CallIDs \ DOMAIN plans}

StrictlyAscending(ids) == \A i, j \in 1 .. Len(ids) : i < j => ids[i] < ids[j]

StrictlyDescending(ids) == \A i, j \in 1 .. Len(ids) : i < j => ids[i] > ids[j]

\* C34: in the summary of every table reached, also with rows of versions
\* the schema does not define added to it: applied and unapplied are
\* disjoint and hold every plan id once between them, applied holds the
\* plan ids that have a row in descending order, unapplied the others in
\* ascending order, and versions is ascending by id and holds the rows of
\* the table and one placeholder, with no applied time, failed and locked
\* unset, for every unapplied plan.
C34_SummaryShape ==
  \A extra \in SUBSET StrayRows :
    LET tbl == table \cup extra
        vs == getVersionSummaryAllowFailed(tbl)
    IN  /\ SeqToSet(vs.applied) \cap SeqToSet(vs.unapplied) = {}
        /\ SeqToSet(vs.applied) \cup SeqToSet(vs.unapplied) = DOMAIN plans
        /\ Len(vs.applied) + Len(vs.unapplied) = Cardinality(DOMAIN plans)
        /\ SeqToSet(vs.applied) = DOMAIN plans \cap RowIDs(tbl)
        /\ StrictlyDescending(vs.applied)
        /\ StrictlyAscending(vs.unapplied)
        /\ StrictlyAscending([k \in 1 .. Len(vs.versions) |-> vs.versions[k].id])
        /\ SeqToSet(vs.versions) =
             tbl \cup {[id |-> p, appliedAt |-> Never, failed |-> FALSE, locked |-> FALSE] :
                         p \in SeqToSet(vs.unapplied)}
        /\ Len(vs.versions) = Cardinality(tbl) + Len(vs.unapplied)

\* Versions has returned on a table that holds the row of version 4 alone:
\* the summary lists the placeholder of 2 and then the row of 4
C34_Witness ==
  /\ Returned(1, "Versions")
  /\ RowIDs(table) = {4}
  /\ getVersionSummaryAllowFailed(table).applied = << 4 >>
  /\ getVersionSummaryAllowFailed(table).unapplied = << 2 >>
  /\ getVersionSummaryAllowFailed(table).versions = << Placeholder(2), RowOf(table, 4) >>

\* C35 as stated: whatever is defined on the schema after NewWorker
\* returned the worker, the worker operates on the versions it was built
\* from: its plans are those versions, and an Up that returns nil has
\* applied them.
C35_Original ==
  \A w \in workers :
    /\ DOMAIN plans = LateIDs
    /\ ( Returned(w, "Up") /\ err[w] = NoErr ) => LateIDs \subseteq RowIDs(table)

\* the plans a compilation of the definitions as they are yields
CompiledNow ==
  completeLoop(handles, definitions, sortIDs(SortAsc(DOMAIN definitions)), 1, << >>)

\* C36 as stated: whenever Err has returned, the plans the schema holds
\* and the errors Err reported are those of a compilation of the current
\* definitions from scratch.
C36_Original ==
  result.op = "Err" =>
    /\ ~schemaPlans.nil
    /\ schemaPlans.list = CompiledNow
    /\ result.err = ErrValue(errs, CompiledNow)

\* the plans with a row are the lowest plans
AppliedPrefix(tbl) ==
  \A p \in AppliedIDs(tbl) : \A q \in DOMAIN plans : q < p => q \in RowIDs(tbl)

\* C37: from an empty version table, in every state one worker reaches,
\* between and during its operations: every plan below a plan that has a
\* row has a row, and a row marked failed is the row of the highest
\* version in the table.
C37_AppliedPrefix ==
  /\ RowIDs(table) \subseteq DOMAIN plans
  /\ AppliedPrefix(table)
  /\ \A r \in table : r.failed => r.id = Max(RowIDs(table))

\* an Up from the empty table has applied version 2 and failed in the
\* action of version 4, run outside a transaction: the rows are a prefix
\* and the failed row is the highest
C37_Witness ==
  /\ Returned(1, "Up")
  /\ tbl0[1] = {}
  /\ err[1] = Error("action", 4)
  /\ table = {Row(2, FALSE, FALSE), Row(4, TRUE, FALSE)}

\* the rows marked failed
FailedRows(tbl) == {r \in tbl : r.failed}

\* C38: from a table without failed row, in every state one worker
\* reaches, between and during its operations, at most one row is marked
\* failed and no row is both failed and locked.
C38_FailedUniqueUnlocked ==
  /\ Cardinality(FailedRows(table)) <= 1
  /\ \A r \in table : ~(r.failed /\ r.locked)

\* version 4 is applied and locked, and the two-phase up of version 2 has
\* failed: one failed row, not locked, next to a locked row
C38_Witness ==
  /\ Returned(1, "Up")
  /\ err[1] = Error("action", 2)
  /\ table = {Row(2, TRUE, FALSE), Row(4, FALSE, TRUE)}

\* the worker is inside the loop of Up, Down or Goto
InLoop(w) == pc[w] # "idle" /\ call[w].name \in {"Up", "Down", "Goto"}

\* each version has at most one event in the log of the running call
OncePerVersion(w) ==
  \A j, k \in 1 .. Len(log[w]) : log[w][j].id = log[w][k].id => j = k

\* C39: a call of Up, Down or Goto by a single worker returns, and until it
\* does it has run the action of at most as many versions as the schema has
\* plans, each version at most once.
C39_LoopsTerminate ==
  /\ [](call[1].name \in {"Up", "Down", "Goto"} =>
          Len(log[1]) <= Cardinality(DOMAIN plans) /\ OncePerVersion(1))
  /\ InLoop(1) ~> pc[1] = "idle"

\* Up has returned nil from the empty table after one step for each plan
C39_Witness ==
  /\ Returned(1, "Up")
  /\ err[1] = NoErr
  /\ tbl0[1] = {}
  /\ table = {Row(i, FALSE, FALSE) : i \in SchemaIDs}
  /\ Len(log[1]) = Cardinality(DOMAIN plans)
  /\ Len(log[1]) = NumPlans

\* w committed the insert of the row of version id: in the transaction of
\* the up action, or as the marker of a two-phase up whose action it is
\* about to run or has run
Took(w, id) ==
  \/ pc[w] = "upOneNoTxExec" /\ stepID[w] = id
  \/ \E k \in 1 .. Len(log[w]) :
       /\ log[w][k].dir = "up" /\ log[w][k].id = id
       /\ (log[w][k].done \/ ~log[w][k].tx)

\* w is about to insert the marker of a version that has a row by now
Late(w) == pc[w] = "upOneNoTx" /\ stepID[w] \in RowIDs(table)

\* w is about to start a step while a row is marked failed
Barred(w) == pc[w] = "upOne" /\ ~NoFailed(table)

\* the step w takes ends its call with e and changes neither the table nor
\* the log of w
EndsWith(w, e) ==
  /\ pc'[w] = "idle" /\ err'[w] = e
  /\ table' = table /\ log'[w] = log[w]

\* C40: when the workers call Up concurrently, each version is taken by at
\* most one worker (the one whose insert of the version's row committed, who
\* alone runs a non-transactional up action), the row was not there when
\* that worker called, and a worker that comes second to a version ends its
\* call with an error without running the action: the insert of the marker
\* fails on the primary key, or the step finds the other's failed marker.
C40_UpOnce ==
  /\ [](\A id \in DOMAIN plans :
          /\ Cardinality({w \in workers : Took(w, id)}) <= 1
          /\ \A w \in workers :
               Took(w, id) => id \in RowIDs(table) /\ id \notin RowIDs(tbl0[w]))
  /\ [][\A w \in workers :
          /\ Late(w) /\ pc'[w] # pc[w] => EndsWith(w, Error("store", stepID[w]))
          /\ Barred(w) /\ pc'[w] # pc[w] => EndsWith(w, Error("failed", 0))]_vars

\* both workers called Up on the empty table and went for version 2 outside
\* a transaction: worker 1 inserted the marker and ran the action, worker 2
\* got the error of its insert and ran nothing
C40_Witness ==
  /\ Returned(2, "Up") /\ tbl0[2] = {} /\ tbl0[1] = {}
  /\ err[2] = Error("store", 2) /\ log[2] = << >>
  /\ Took(1, 2) /\ log[1] # << >> /\ ~log[1][1].tx /\ log[1][1].ok
  /\ 2 \in RowIDs(table)

====
